---- MODULE Spec2Model ----
(***************************************************************************)
(* controlinfra CLI: the scan-wait protocol (commands/scan-wait.js, with   *)
(* the same loop in commands/scan.js), the drift gate                      *)
(* (output/drift-gate: evaluateDriftGate) and the API client's response    *)
(* interceptor (api/client.js).                                            *)
(***************************************************************************)
EXTENDS Integers, Sequences, FiniteSets, TLC

VARIABLES
    pc,             \* position of the wait command: loop_top, fetch_scan, sleeping, fetch_drifts, exited
    options,        \* the options object waitForScan received
    startTime,      \* const startTime = Date.now()
    now,            \* the wall clock, in ms
    scan,           \* the scan object of the last successful status fetch
    driftDetails,   \* let driftDetails = [] / the fetched drift list
    gateExitCode,   \* let gateExitCode = null / evaluateDriftGate's result
    statusFetches,  \* number of scans.get requests issued
    driftFetches,   \* number of drifts.getByScan requests issued
    outstanding,    \* number of requests in flight
    sleeps,         \* number of setTimeout(pollInterval) sleeps taken
    log,            \* what was printed (spinner, console, outputError), in order
    exitCodes,      \* the process exit codes produced, in order
    token,          \* config 'token': the stored credential, or Absent
    refreshToken,   \* config 'refreshToken', or Absent
    user,           \* config 'user', or Absent
    report,         \* the JSON document outputDriftTable printed, or NoReport
    response,       \* the last settled request: which one (req) and how it ended (resp)
    gpc,            \* direct call of evaluateDriftGate: "input" or "returned"
    gScan,          \* its scan argument
    gDrifts,        \* its driftDetails argument
    gOptions,       \* its options argument
    gResult,        \* its return value
    gErrors,        \* the outputError calls it made
    scanId,         \* the <scan-id> argument of the wait command
    fullId,         \* const fullId = await resolveScanId(scanId) / the id waitForScan polls
    serverScans,    \* the _id of every scan the server holds, in listing order
    cliOptions,     \* the options object commander hands to wait
    env,            \* process.env: the three CONTROLINFRA_FAIL_ON_* variables
    envDefaults,    \* const envDefaults = getDriftGateDefaults()
    listFetches,    \* number of scans.list requests issued
    loginToken,     \* options.token of the login command
    apiUrl,         \* config 'apiUrl'
    apiUrlEnv,      \* process.env.CONTROLINFRA_API_URL
    apiUrlResult    \* what getApiUrl() returned

authVars == <<token, refreshToken, user>>
waitVars == <<pc, options, startTime, now, scan, driftDetails, gateExitCode,
              statusFetches, driftFetches, outstanding, sleeps, log, exitCodes, authVars,
              response, report>>
gateVars == <<gpc, gScan, gDrifts, gOptions, gResult, gErrors>>
cmdVars == <<scanId, fullId, serverScans, cliOptions, env, envDefaults, listFetches>>
cfgVars == <<loginToken, apiUrl, apiUrlEnv, apiUrlResult>>
vars == <<waitVars, gateVars, cmdVars, cfgVars>>

-----------------------------------------------------------------------------
(* Bounds of the model *)

\* longest drift list the server returns / the gate is given
MaxLen == 2
\* largest totalDrifts a scan summary reports
MaxTotal == 1

-----------------------------------------------------------------------------
(* JavaScript values: a type tag, a number and a string (a sequence of      *)
(* one-character strings), so that every comparison is between like shapes. *)

JSUndefined == [t |-> "undefined", n |-> 0, s |-> <<>>]
JSNull == [t |-> "null", n |-> 0, s |-> <<>>]
\* a function or object value, e.g. a property inherited from Object.prototype
JSObject == [t |-> "object", n |-> 0, s |-> <<>>]
JSNum(k) == [t |-> "number", n |-> k, s |-> <<>>]
JSStr(chars) == [t |-> "string", n |-> 0, s |-> chars]
JSBool(b) == [t |-> "boolean", n |-> IF b THEN 1 ELSE 0, s |-> <<>>]

\* ToBoolean: what `if (x)`, `!x` and `x || y` test
Truthy(x) ==
    CASE x.t = "undefined" -> FALSE
      [] x.t = "null" -> FALSE
      [] x.t = "number" -> x.n # 0
      [] x.t = "string" -> x.s # <<>>
      [] x.t = "boolean" -> x.n = 1
      [] OTHER -> TRUE

\* x || y
JSOr(x, y) == IF Truthy(x) THEN x ELSE y

\* JSGreaterEq with the comparison reversed
JSGreaterEq_Reversed(a, b) ==
    /\ a.t = "number"
    /\ b.t = "number"
    /\ a.n <= b.n

\* JSGreaterEq with a strict comparison
JSGreaterEq_Strict(a, b) ==
    /\ a.t = "number"
    /\ b.t = "number"
    /\ a.n > b.n

\* a >= b on JS values: both sides go through ToNumber and any NaN gives false
\* (a function or a plain object converts to NaN)
JSGreaterEq(a, b) ==
    /\ a.t = "number"
    /\ b.t = "number"
    /\ a.n >= b.n

UpperChars == <<"A","B","C","D","E","F","G","H","I","J","K","L","M",
                "N","O","P","Q","R","S","T","U","V","W","X","Y","Z">>
LowerChars == <<"a","b","c","d","e","f","g","h","i","j","k","l","m",
                "n","o","p","q","r","s","t","u","v","w","x","y","z">>

ToLowerChar(c) ==
    IF \E i \in 1..26 : UpperChars[i] = c
    THEN LowerChars[CHOOSE i \in 1..26 : UpperChars[i] = c]
    ELSE c

\* String.prototype.toLowerCase
ToLowerCase(chars) == [i \in 1..Len(chars) |-> ToLowerChar(chars[i])]

\* the strings the model uses
S_critical == <<"c","r","i","t","i","c","a","l">>
S_high == <<"h","i","g","h">>
S_medium == <<"m","e","d","i","u","m">>
S_low == <<"l","o","w">>
S_HIGH == <<"H","I","G","H">>
S_invalid == <<"i","n","v","a","l","i","d">>
S_constructor == <<"c","o","n","s","t","r","u","c","t","o","r">>
S_toString == <<"t","o","S","t","r","i","n","g">>
S_valueOf == <<"v","a","l","u","e","O","f">>
S_hasOwnProperty == <<"h","a","s","O","w","n","P","r","o","p","e","r","t","y">>
S_proto == <<"_","_","p","r","o","t","o","_","_">>

\* the properties every object literal inherits from Object.prototype
\* (those whose names survive toLowerCase are reachable through the lookup)
ObjectPrototypeKeys ==
    {S_constructor, S_toString, S_valueOf, S_hasOwnProperty, S_proto}

-----------------------------------------------------------------------------
(* The drift gate *)

\* const severityOrder = { critical: 4, high: 3, medium: 2, low: 1 };
\* severityOrder[key]: an own property, else one inherited from
\* Object.prototype, else undefined. key is a JS value (undefined when
\* drift.severity?.toLowerCase() short-circuits).
SeverityOrderLookup(key) ==
    IF key.t # "string" THEN JSUndefined
    ELSE CASE key.s = S_critical -> JSNum(4)
           [] key.s = S_high -> JSNum(3)
           [] key.s = S_medium -> JSNum(2)
           [] key.s = S_low -> JSNum(1)
           [] key.s \in ObjectPrototypeKeys -> JSObject
           [] OTHER -> JSUndefined

\* OptLowerCase without the toLowerCase call
OptLowerCase_Identity(x) == IF x.t = "string" THEN x ELSE JSUndefined

\* x?.toLowerCase()
OptLowerCase(x) == IF x.t = "string" THEN JSStr(ToLowerCase(x.s)) ELSE JSUndefined

\* IsNewStrict as d.isNew !== false
IsNewStrict_NotFalse(d) == ~(d.isNew.t = "boolean" /\ d.isNew.n = 0)

\* d.isNew === true
IsNewStrict(d) == d.isNew.t = "boolean" /\ d.isNew.n = 1

\* Array.prototype.filter, keeping the order
RECURSIVE FilterNew(_)
FilterNew(ds) ==
    IF ds = <<>> THEN <<>>
    ELSE IF IsNewStrict(Head(ds))
         THEN <<Head(ds)>> \o FilterNew(Tail(ds))
         ELSE FilterNew(Tail(ds))

\* RelevantDrifts that never filters
RelevantDrifts_NeverFilter(ds, opts) == ds

\* RelevantDrifts filtering whether or not failOnNewOnly is set
RelevantDrifts_AlwaysFilter(ds, opts) == FilterNew(ds)

\* options.failOnNewOnly ? driftDetails.filter((d) => d.isNew === true) : driftDetails
RelevantDrifts(ds, opts) == IF opts.failOnNewOnly THEN FilterNew(ds) ELSE ds

\* DriftExceeds with || 1 for || 0
DriftExceeds_DefaultLow(drift, threshold) ==
    LET driftSeverity == JSOr(SeverityOrderLookup(OptLowerCase(drift.severity)), JSNum(1))
    IN JSGreaterEq(driftSeverity, threshold)

\* the callback of relevantDrifts.some(...)
DriftExceeds(drift, threshold) ==
    LET driftSeverity == JSOr(SeverityOrderLookup(OptLowerCase(drift.severity)), JSNum(0))
    IN JSGreaterEq(driftSeverity, threshold)

\* NoDriftReported without the totalDrifts === 0 test
NoDriftReported_HasDriftOnly(sc) ==
    \/ ~sc.driftResults.present
    \/ ~sc.driftResults.hasDrift

\* the early return on the scan summary:
\* !driftResults.hasDrift || driftResults.totalDrifts === 0, with driftResults = scan.driftResults || {}
NoDriftReported(sc) ==
    \/ ~sc.driftResults.present
    \/ ~sc.driftResults.hasDrift
    \/ (sc.driftResults.totalDrifts.t = "number" /\ sc.driftResults.totalDrifts.n = 0)

\* AnyDriftFails where failOnNewOnly counts like failOnDrift
AnyDriftFails_OrNewOnly(opts) ==
    (opts.failOnDrift \/ opts.failOnNewOnly) /\ ~Truthy(opts.failOnSeverity)

\* AnyDriftFails without the !options.failOnSeverity test
AnyDriftFails_IgnoresSeverity(opts) == opts.failOnDrift

\* options.failOnDrift && !options.failOnSeverity
AnyDriftFails(opts) == opts.failOnDrift /\ ~Truthy(opts.failOnSeverity)

\* evaluateDriftGate(scan, driftDetails, options): the value returned (ret)
\* and the outputError calls made (errors)
evaluateDriftGate(sc, ds, opts) ==
    LET relevantDrifts == RelevantDrifts(ds, opts)
        threshold == SeverityOrderLookup(JSStr(ToLowerCase(opts.failOnSeverity.s)))
    IN  IF NoDriftReported(sc) THEN [ret |-> 0, errors |-> <<>>]
        ELSE IF Len(relevantDrifts) = 0 THEN [ret |-> 0, errors |-> <<>>]
        ELSE IF AnyDriftFails(opts) THEN [ret |-> 1, errors |-> <<>>]
        ELSE IF Truthy(opts.failOnSeverity)
             THEN IF ~Truthy(threshold)
                  THEN [ret |-> 1, errors |-> <<"Invalid severity level">>]
                  ELSE IF \E i \in 1..Len(relevantDrifts) : DriftExceeds(relevantDrifts[i], threshold)
                       THEN [ret |-> 1, errors |-> <<>>]
                       ELSE [ret |-> 0, errors |-> <<>>]
        ELSE [ret |-> 0, errors |-> <<>>]

-----------------------------------------------------------------------------
(* Input domains *)

\* --fail-on-severity / CONTROLINFRA_FAIL_ON_SEVERITY after the || merge:
\* null, or any string the user typed
FailOnSeverityValues ==
    {JSNull, JSStr(<<>>), JSStr(S_low), JSStr(S_medium), JSStr(S_high), JSStr(S_critical),
     JSStr(S_HIGH), JSStr(S_invalid), JSStr(S_constructor)}

GateOptions ==
    [failOnDrift : BOOLEAN, failOnSeverity : FailOnSeverityValues, failOnNewOnly : BOOLEAN]

\* drifts as the API returns them: severity a string or missing, isNew
\* true, false or missing
DriftValues ==
    [severity : {JSStr(S_low), JSStr(S_medium), JSStr(S_high), JSStr(S_critical)},
     isNew : {JSBool(TRUE), JSBool(FALSE)}]
    \cup [severity : {JSUndefined, JSStr(S_invalid)}, isNew : {JSBool(TRUE), JSUndefined}]
    \cup [severity : {JSStr(S_HIGH), JSStr(S_constructor)}, isNew : {JSBool(TRUE)}]

DriftLists == UNION {[1..k -> DriftValues] : k \in 0..MaxLen}

\* scan.driftResults: missing, or a summary whose hasDrift and totalDrifts
\* the server sets independently
DriftResultsValues ==
    {[present |-> FALSE, hasDrift |-> FALSE, totalDrifts |-> JSUndefined]}
    \cup [present : {TRUE}, hasDrift : BOOLEAN,
          totalDrifts : {JSUndefined} \cup {JSNum(k) : k \in 0..MaxTotal}]

\* a scan object without a status field
MissingStatus == "(undefined)"

NoScan == [status |-> MissingStatus, hasError |-> FALSE,
           driftResults |-> [present |-> FALSE, hasDrift |-> FALSE, totalDrifts |-> JSUndefined]]

GateScans == [status : {"completed"}, hasError : {FALSE}, driftResults : DriftResultsValues]

\* a settled request: http is the response's status (0 when no response
\* arrived), code the error code of a request without response
OkResponse == [http |-> 200, code |-> ""]
ErrorResponses ==
    {[http |-> h, code |-> ""] : h \in {401, 403, 404, 429, 500}}
    \cup {[http |-> 0, code |-> c] : c \in {"ECONNREFUSED", "ETIMEDOUT"}}
NoResponse == [req |-> "none", resp |-> OkResponse]

-----------------------------------------------------------------------------
(* The config store (config.js) *)

\* a key the store does not hold
Absent == "(absent)"

\* credentials of an earlier session
StoredToken == "stored-token"
StoredRefreshToken == "stored-refresh-token"
StoredUser == "stored-user"

StoredAuth ==
    /\ token = StoredToken
    /\ refreshToken = StoredRefreshToken
    /\ user = StoredUser

\* isAuthenticated(): !!getToken(), with CONTROLINFRA_TOKEN unset
isAuthenticated == token # Absent

\* clearAuth that deletes the token only
clearAuth_TokenOnly ==
    /\ token' = Absent
    /\ UNCHANGED <<refreshToken, user>>

\* clearAuth(): config.delete of token, refreshToken and user
clearAuth ==
    /\ token' = Absent
    /\ refreshToken' = Absent
    /\ user' = Absent

NoReport == [printed |-> FALSE]

\* the schema default of apiUrl, and the API host
StaleDefaultUrl == "https://www.controlinfra.com"
ApiDefaultUrl == "https://api.controlinfra.com"

\* getApiUrl(): process.env.CONTROLINFRA_API_URL || config.get('apiUrl');
\* ret is the value returned, stored the apiUrl the store holds afterwards
getApiUrl(envUrl, storedUrl) ==
    [ret |-> IF envUrl \notin {Absent, ""} THEN envUrl ELSE storedUrl,
     stored |-> storedUrl]

\* what config.get('apiUrl') can hold: the schema default, or a URL set earlier
StoredUrlValues ==
    {StaleDefaultUrl, ApiDefaultUrl, "https://www.controlinfra.com/",
     "http://www.controlinfra.com", "https://self-hosted.example.com",
     "http://localhost:3000", "https://stage.controlinfra.com", "https://WWW.controlinfra.com"}

\* CONTROLINFRA_API_URL: unset, empty, or a URL
EnvUrlValues ==
    {Absent, "", "https://custom.example.com", "https://override.example.com",
     StaleDefaultUrl, ApiDefaultUrl, "http://localhost:3000", "https://stage.controlinfra.com"}

\* --token values of the login command
LoginTokenValues == {"valid-token-123", "bad-token", StoredToken}

\* the user object getMe returns
ReturnedUser == "returned-user"

\* the bodies getMe answers with: { user: ... } or the user itself
GetMeBodies == {[wrapped |-> TRUE, user |-> ReturnedUser], [wrapped |-> FALSE, user |-> ReturnedUser]}

\* userData.user || userData
UserOfBody(userData) == userData.user

\* no login and no getApiUrl call is under way
CfgIdle ==
    /\ loginToken = Absent
    /\ apiUrl = Absent
    /\ apiUrlEnv = Absent
    /\ apiUrlResult = Absent

-----------------------------------------------------------------------------
(* The wait command's inputs and the pure functions it calls *)

HexChars == {"0","1","2","3","4","5","6","7","8","9","a","b","c","d","e","f",
             "A","B","C","D","E","F"}

\* /^[a-f0-9]{24}$/i.test(partialId)
IsFullId(chars) == Len(chars) = 24 /\ \A i \in 1..24 : chars[i] \in HexChars

\* String.prototype.endsWith
EndsWith(chars, suffix) ==
    /\ Len(suffix) <= Len(chars)
    /\ SubSeq(chars, Len(chars) - Len(suffix) + 1, Len(chars)) = suffix

\* scanList.find((s) => s._id === partialId): the first match, else undefined
FindExact(scanList, partialId) ==
    IF \E i \in DOMAIN scanList : scanList[i] = partialId
    THEN JSStr(scanList[CHOOSE i \in DOMAIN scanList :
                   /\ scanList[i] = partialId
                   /\ \A j \in 1..(i - 1) : scanList[j] # partialId])
    ELSE JSUndefined

\* scanList.find((s) => s._id?.endsWith(partialId)): the first match, else undefined
FindEndsWith(scanList, partialId) ==
    IF \E i \in DOMAIN scanList : EndsWith(scanList[i], partialId)
    THEN JSStr(scanList[CHOOSE i \in DOMAIN scanList :
                   /\ EndsWith(scanList[i], partialId)
                   /\ \A j \in 1..(i - 1) : ~EndsWith(scanList[j], partialId)])
    ELSE JSUndefined

\* ResolveFromList that hands an unmatched id on as it is
ResolveFromList_PassThrough(scanList, partialId) ==
    LET exactMatch == FindExact(scanList, partialId)
        partialMatch == FindEndsWith(scanList, partialId)
    IN  IF Truthy(exactMatch) THEN exactMatch
        ELSE IF Truthy(partialMatch) THEN partialMatch
        ELSE JSStr(partialId)

\* resolveScanId once the scan list is there: the exact match, else the
\* first scan whose _id ends with partialId, else null
ResolveFromList(scanList, partialId) ==
    LET exactMatch == FindExact(scanList, partialId)
        partialMatch == FindEndsWith(scanList, partialId)
    IN  IF Truthy(exactMatch) THEN exactMatch
        ELSE IF Truthy(partialMatch) THEN partialMatch
        ELSE JSNull

S_true == <<"t","r","u","e">>
S_TRUE == <<"T","R","U","E">>
S_false == <<"f","a","l","s","e">>
S_yes == <<"y","e","s">>
S_1 == <<"1">>

\* process.env.X === 'true' read without regard to letter case
IsTrueString_AnyCase(x) == x.t = "string" /\ ToLowerCase(x.s) = S_true

\* process.env.X === 'true'
IsTrueString(x) == x = JSStr(S_true)

\* getDriftGateDefaults() for the environment e
getDriftGateDefaults(e) ==
    [failOnDrift |-> JSBool(IsTrueString(e.CONTROLINFRA_FAIL_ON_DRIFT)),
     failOnSeverity |-> JSOr(e.CONTROLINFRA_FAIL_ON_SEVERITY, JSNull),
     failOnNewOnly |-> JSBool(IsTrueString(e.CONTROLINFRA_FAIL_ON_NEW_ONLY))]

\* a merge that lets the environment default win
MergeField_EnvFirst(cliValue, envDefault) == JSOr(envDefault, cliValue)

\* options.failOnX || envDefaults.failOnX
MergeField(cliValue, envDefault) == JSOr(cliValue, envDefault)

\* the options object wait hands to waitForScan; json is getGlobalJsonFlag(command)
MergedOptions(cli, defaults) ==
    [timeout |-> cli.timeout,
     failOnDrift |-> Truthy(MergeField(cli.failOnDrift, defaults.failOnDrift)),
     failOnSeverity |-> MergeField(cli.failOnSeverity, defaults.failOnSeverity),
     failOnNewOnly |-> Truthy(MergeField(cli.failOnNewOnly, defaults.failOnNewOnly)),
     json |-> cli.json]

\* a scan on the server, another whose _id has the same last two digits, and
\* a well-formed _id no scan has
Id_A == <<"6","4","b","7","f","3","a","2","c","1","d","4","e","5","f","6","a","7","b","8","c","9","d","0">>
Id_B == <<"6","4","b","7","f","3","a","2","c","1","d","4","e","5","f","6","a","7","b","8","0","0","d","0">>
Id_Gone == <<"6","4","B","7","F","3","A","2","C","1","D","4","E","5","F","6","A","7","B","8","C","9","D","1">>

\* what the user types for <scan-id>: two full ids, the tail two ids share,
\* and a tail of no id
ScanIdValues == {Id_A, Id_Gone, <<"d","0">>, <<"f","f","f","f">>}

ServerScanLists == {<<Id_B, Id_A>>}

NoEnv == [CONTROLINFRA_FAIL_ON_DRIFT |-> JSUndefined,
          CONTROLINFRA_FAIL_ON_SEVERITY |-> JSUndefined,
          CONTROLINFRA_FAIL_ON_NEW_ONLY |-> JSUndefined]

\* values of a boolean variable of the environment
EnvFlagValues ==
    {JSUndefined, JSStr(<<>>), JSStr(S_true), JSStr(S_TRUE), JSStr(S_1), JSStr(S_yes), JSStr(S_false)}

\* values of CONTROLINFRA_FAIL_ON_SEVERITY
EnvSeverityValues == {JSUndefined, JSStr(<<>>), JSStr(S_low), JSStr(S_HIGH), JSStr(S_invalid)}

EnvValues ==
    [CONTROLINFRA_FAIL_ON_DRIFT : EnvFlagValues,
     CONTROLINFRA_FAIL_ON_SEVERITY : EnvSeverityValues,
     CONTROLINFRA_FAIL_ON_NEW_ONLY : EnvFlagValues]

\* the environments of the wait command: each variable unset or set
WaitEnvValues ==
    [CONTROLINFRA_FAIL_ON_DRIFT : {JSUndefined, JSStr(S_true)},
     CONTROLINFRA_FAIL_ON_SEVERITY : {JSUndefined, JSStr(S_low)},
     CONTROLINFRA_FAIL_ON_NEW_ONLY : {JSUndefined, JSStr(S_true)}]

NoDefaults == [failOnDrift |-> JSUndefined, failOnSeverity |-> JSUndefined,
               failOnNewOnly |-> JSUndefined]

NoCliOptions == [timeout |-> JSUndefined, failOnDrift |-> JSUndefined,
                 failOnSeverity |-> JSUndefined, failOnNewOnly |-> JSUndefined,
                 json |-> FALSE]

\* what commander produces: a flag is true or absent, --fail-on-severity
\* carries the string given, the empty one included
CliOptionValues ==
    [timeout : {JSStr(<<"4">>)},
     failOnDrift : {JSUndefined, JSBool(TRUE)},
     failOnSeverity : {JSUndefined, JSStr(<<>>), JSStr(S_high)},
     failOnNewOnly : {JSUndefined, JSBool(TRUE)},
     json : {FALSE}]

\* waitForScan was called directly, or nothing was called
CmdIdle ==
    /\ CfgIdle
    /\ scanId = Id_A
    /\ fullId = JSStr(Id_A)
    /\ serverScans = <<Id_A>>
    /\ cliOptions = NoCliOptions
    /\ env = NoEnv
    /\ envDefaults = NoDefaults
    /\ listFetches = 0

\* the server holds the scan that is polled
ScanExists == \E i \in DOMAIN serverScans : JSStr(serverScans[i]) = fullId

-----------------------------------------------------------------------------
(* Direct calls of evaluateDriftGate, as the unit tests make them *)

WaitIdle ==
    /\ CmdIdle
    /\ pc = "idle"
    /\ options = [timeout |-> JSUndefined, failOnDrift |-> FALSE,
                  failOnSeverity |-> JSNull, failOnNewOnly |-> FALSE, json |-> FALSE]
    /\ startTime = 0
    /\ now = 0
    /\ scan = NoScan
    /\ driftDetails = <<>>
    /\ gateExitCode = JSNull
    /\ statusFetches = 0
    /\ driftFetches = 0
    /\ outstanding = 0
    /\ sleeps = 0
    /\ log = <<>>
    /\ exitCodes = <<>>
    /\ StoredAuth
    /\ report = NoReport
    /\ response = NoResponse

GateInit ==
    /\ WaitIdle
    /\ gpc = "input"
    /\ gScan \in GateScans
    /\ gDrifts \in DriftLists
    /\ gOptions \in GateOptions
    /\ gResult = JSUndefined
    /\ gErrors = <<>>

\* CallGate where the filter replaces the caller's list
CallGate_FiltersInPlace ==
    /\ gpc = "input"
    /\ LET r == evaluateDriftGate(gScan, gDrifts, gOptions)
       IN /\ gResult' = JSNum(r.ret)
          /\ gErrors' = r.errors
    /\ gpc' = "returned"
    /\ gDrifts' = RelevantDrifts(gDrifts, gOptions)
    /\ UNCHANGED <<gScan, gOptions>>
    /\ UNCHANGED waitVars
    /\ UNCHANGED cfgVars
    /\ UNCHANGED cmdVars

CallGate ==
    /\ gpc = "input"
    /\ LET r == evaluateDriftGate(gScan, gDrifts, gOptions)
       IN /\ gResult' = JSNum(r.ret)
          /\ gErrors' = r.errors
    /\ gpc' = "returned"
    /\ UNCHANGED <<gScan, gDrifts, gOptions>>
    /\ UNCHANGED waitVars
    /\ UNCHANGED cfgVars
    /\ UNCHANGED cmdVars

GateNext == CallGate

GateSpec == GateInit /\ [][GateNext]_vars

-----------------------------------------------------------------------------
(* The API client's response interceptor (api/client.js) *)

\* the interceptor ends the process itself: process.exit(1)
ClientExits(resp) == resp.http \in {401, 403, 429}

\* clearAuth() runs before that exit
ClientClearsAuth(resp) == resp.http = 401

\* what the interceptor prints before it exits
ClientMessage(resp) ==
    CASE resp.http = 401 -> "client:Session expired"
      [] resp.http = 403 -> "client:Access denied"
      [] OTHER -> "client:Rate limit exceeded"

\* every other failure is thrown to the caller of the request
ClientThrows(resp) == resp # OkResponse /\ ~ClientExits(resp)

-----------------------------------------------------------------------------
(* The wait command *)

\* const pollInterval = 3000;
pollInterval == 3000
\* options.timeout || '600'
DefaultTimeout == <<"6","0","0">>

Digits == <<"0","1","2","3","4","5","6","7","8","9">>
IsDigit(c) == \E i \in 1..10 : Digits[i] = c
DigitValue(c) == (CHOOSE i \in 1..10 : Digits[i] = c) - 1

\* the value of the longest prefix of digits, after acc
RECURSIVE ParseDigits(_, _)
ParseDigits(chars, acc) ==
    IF chars = <<>> \/ ~IsDigit(Head(chars)) THEN acc
    ELSE ParseDigits(Tail(chars), 10 * acc + DigitValue(Head(chars)))

\* parseInt(chars, 10): an optional sign and the leading digits; NaN when
\* there is no digit
ParseInt(chars) ==
    LET neg == chars # <<>> /\ Head(chars) = "-"
        body == IF neg THEN Tail(chars) ELSE chars
    IN  IF body = <<>> \/ ~IsDigit(Head(body))
        THEN [nan |-> TRUE, v |-> 0]
        ELSE [nan |-> FALSE, v |-> IF neg THEN 0 - ParseDigits(body, 0) ELSE ParseDigits(body, 0)]

\* const timeout = parseInt(options.timeout || '600', 10) * 1000;
TimeoutMs(opts) ==
    LET p == ParseInt(IF Truthy(opts.timeout) THEN opts.timeout.s ELSE DefaultTimeout)
    IN  [nan |-> p.nan, v |-> p.v * 1000]

\* WithinTimeout with <= for <
WithinTimeout_Inclusive == ~TimeoutMs(options).nan /\ now - startTime <= TimeoutMs(options).v

\* Date.now() - startTime < timeout (false when timeout is NaN)
WithinTimeout == ~TimeoutMs(options).nan /\ now - startTime < TimeoutMs(options).v

\* terminalStatuses that also counts 'queued' as terminal
terminalStatuses_WithQueued == {"completed", "failed", "cancelled", "queued"}

\* terminalStatuses without 'cancelled'
terminalStatuses_NoCancelled == {"completed", "failed"}

\* const terminalStatuses = ['completed', 'failed', 'cancelled'];
terminalStatuses == {"completed", "failed", "cancelled"}

\* DriftCount read from hasDrift instead of totalDrifts
DriftCount_FromHasDrift(sc) ==
    IF sc.driftResults.present /\ sc.driftResults.hasDrift THEN 1 ELSE 0

\* const driftCount = scan.driftResults?.totalDrifts || 0;
DriftCount(sc) ==
    IF sc.driftResults.present /\ Truthy(sc.driftResults.totalDrifts)
    THEN sc.driftResults.totalDrifts.n
    ELSE 0

\* HasGateOptions that counts failOnNewOnly as well
HasGateOptions_AnyFlag(opts) ==
    opts.failOnDrift \/ Truthy(opts.failOnSeverity) \/ opts.failOnNewOnly

\* HasGateOptions looking at failOnDrift only
HasGateOptions_OnlyFailOnDrift(opts) == opts.failOnDrift

\* const hasGateOptions = options.failOnDrift || options.failOnSeverity;
HasGateOptions(opts) == opts.failOnDrift \/ Truthy(opts.failOnSeverity)

\* --timeout values of the model (the default 600 needs 200 polls)
TimeoutValues == {JSStr(<<"7">>), JSStr(<<"4">>), JSStr(<<"0">>), JSStr(<<"s","o","o","n">>)}

WaitOptions ==
    [timeout : TimeoutValues,
     failOnDrift : BOOLEAN,
     failOnSeverity : {JSNull, JSStr(<<>>), JSStr(S_high), JSStr(S_invalid), JSStr(S_constructor)},
     failOnNewOnly : BOOLEAN,
     json : BOOLEAN]

\* how long a request takes, in ms
Latencies == {0, 1000, 8000}

\* statuses the server reports: the terminal ones, two of a scan in flight,
\* one the client has never seen, and a scan object without status
ServerStatuses ==
    {"completed", "failed", "cancelled", "queued", "running", "provisioning", MissingStatus}

\* the drift lists the server returns to the wait command, of at most MaxWaitLen drifts
MaxWaitLen == 1
WaitDriftLists == UNION {[1..k -> DriftValues] : k \in 0..MaxWaitLen}

GateIdle ==
    /\ gpc = "idle"
    /\ gScan = NoScan
    /\ gDrifts = <<>>
    /\ gOptions = [failOnDrift |-> FALSE, failOnSeverity |-> JSNull, failOnNewOnly |-> FALSE]
    /\ gResult = JSUndefined
    /\ gErrors = <<>>

\* waitForScan is entered: the clock is read, the spinner starts
Init ==
    /\ GateIdle
    /\ CmdIdle
    /\ pc = "loop_top"
    /\ options \in WaitOptions
    /\ startTime = 0
    /\ now = 0
    /\ scan = NoScan
    /\ driftDetails = <<>>
    /\ gateExitCode = JSNull
    /\ statusFetches = 0
    /\ driftFetches = 0
    /\ outstanding = 0
    /\ sleeps = 0
    /\ log = <<>>
    /\ exitCodes = <<>>
    /\ StoredAuth
    /\ report = NoReport
    /\ response = NoResponse

\* process.exit(code) after printing msgs: nothing runs after it
Exit(code, msgs) ==
    /\ pc' = "exited"
    /\ log' = log \o msgs
    /\ exitCodes' = Append(exitCodes, code)

\* the command returns after printing msgs and the process ends with code 0
ReturnNormally(msgs) ==
    /\ pc' = "exited"
    /\ log' = log \o msgs
    /\ exitCodes' = Append(exitCodes, 0)

\* the loop condition holds: scans.get(scanId) is issued
PollScan ==
    /\ pc = "loop_top"
    /\ UNCHANGED response
    /\ UNCHANGED gateVars
    /\ UNCHANGED cfgVars
    /\ UNCHANGED report
    /\ UNCHANGED cmdVars
    /\ WithinTimeout
    /\ pc' = "fetch_scan"
    /\ statusFetches' = statusFetches + 1
    /\ outstanding' = outstanding + 1
    /\ UNCHANGED <<options, startTime, now, scan, driftDetails, gateExitCode,
                   driftFetches, sleeps, log, exitCodes, authVars>>

\* the loop condition fails: spinner.fail('Timeout ...'); process.exit(2)
TimeoutExit ==
    /\ pc = "loop_top"
    /\ UNCHANGED response
    /\ UNCHANGED gateVars
    /\ UNCHANGED cfgVars
    /\ UNCHANGED report
    /\ UNCHANGED cmdVars
    /\ ~WithinTimeout
    /\ Exit(2, <<"fail:Timeout waiting for scan to complete">>)
    /\ UNCHANGED <<options, startTime, now, scan, driftDetails, gateExitCode,
                   statusFetches, driftFetches, outstanding, sleeps, authVars>>

\* the status fetch returns a scan that is not terminal: the sleep starts
ScanInFlight ==
    /\ pc = "fetch_scan"
    /\ ScanExists
    /\ UNCHANGED gateVars
    /\ UNCHANGED cfgVars
    /\ UNCHANGED report
    /\ UNCHANGED cmdVars
    /\ \E lat \in Latencies, st \in ServerStatuses :
         /\ ~(st \in terminalStatuses)
         /\ now' = now + lat
         /\ scan' = [NoScan EXCEPT !.status = st]
         /\ pc' = "sleeping"
    /\ response' = [req |-> "scan", resp |-> OkResponse]
    /\ outstanding' = outstanding - 1
    /\ UNCHANGED <<options, startTime, driftDetails, gateExitCode, statusFetches,
                   driftFetches, sleeps, log, exitCodes, authVars>>

\* Sleep that waits two poll intervals
Sleep_Twice ==
    /\ pc = "sleeping"
    /\ UNCHANGED response
    /\ UNCHANGED gateVars
    /\ UNCHANGED cfgVars
    /\ UNCHANGED report
    /\ UNCHANGED cmdVars
    /\ now' = now + 2 * pollInterval
    /\ sleeps' = sleeps + 2
    /\ pc' = "loop_top"
    /\ UNCHANGED <<options, startTime, scan, driftDetails, gateExitCode, statusFetches,
                   driftFetches, outstanding, log, exitCodes, authVars>>

\* setTimeout(resolve, pollInterval) fires
Sleep ==
    /\ pc = "sleeping"
    /\ UNCHANGED response
    /\ UNCHANGED gateVars
    /\ UNCHANGED cfgVars
    /\ UNCHANGED report
    /\ UNCHANGED cmdVars
    /\ now' = now + pollInterval
    /\ sleeps' = sleeps + 1
    /\ pc' = "loop_top"
    /\ UNCHANGED <<options, startTime, scan, driftDetails, gateExitCode, statusFetches,
                   driftFetches, outstanding, log, exitCodes, authVars>>

\* ScanFailed that looks at the deadline when the response arrives
ScanFailed_ChecksDeadline ==
    /\ pc = "fetch_scan"
    /\ ScanExists
    /\ response' = [req |-> "scan", resp |-> OkResponse]
    /\ UNCHANGED gateVars
    /\ UNCHANGED cfgVars
    /\ UNCHANGED report
    /\ UNCHANGED cmdVars
    /\ \E lat \in Latencies, st \in ServerStatuses, err \in BOOLEAN, dr \in DriftResultsValues :
         /\ st \in terminalStatuses /\ st # "completed" /\ st = "failed"
         /\ now' = now + lat
         /\ scan' = [status |-> st, hasError |-> err, driftResults |-> dr]
         /\ IF ~TimeoutMs(options).nan /\ now + lat - startTime < TimeoutMs(options).v
            THEN Exit(2, <<"fail:Scan failed">> \o (IF err THEN <<"Error: scan.error">> ELSE <<>>))
            ELSE Exit(2, <<"fail:Timeout waiting for scan to complete">>)
    /\ outstanding' = outstanding - 1
    /\ UNCHANGED <<options, startTime, driftDetails, gateExitCode, statusFetches,
                   driftFetches, sleeps, authVars>>

\* ScanFailed without process.exit(2) and return: the loop goes on
ScanFailed_FallsThrough ==
    /\ pc = "fetch_scan"
    /\ ScanExists
    /\ response' = [req |-> "scan", resp |-> OkResponse]
    /\ UNCHANGED gateVars
    /\ UNCHANGED cfgVars
    /\ UNCHANGED report
    /\ UNCHANGED cmdVars
    /\ \E lat \in Latencies, err \in BOOLEAN, dr \in DriftResultsValues :
         /\ now' = now + lat
         /\ scan' = [status |-> "failed", hasError |-> err, driftResults |-> dr]
         /\ log' = log \o <<"fail:Scan failed">>
    /\ pc' = "sleeping"
    /\ outstanding' = outstanding - 1
    /\ UNCHANGED <<options, startTime, driftDetails, gateExitCode, statusFetches,
                   driftFetches, sleeps, authVars, exitCodes>>

\* status 'failed': spinner.fail, the scan's error if any, process.exit(2)
ScanFailed ==
    /\ pc = "fetch_scan"
    /\ ScanExists
    /\ response' = [req |-> "scan", resp |-> OkResponse]
    /\ UNCHANGED gateVars
    /\ UNCHANGED cfgVars
    /\ UNCHANGED report
    /\ UNCHANGED cmdVars
    /\ \E lat \in Latencies, st \in ServerStatuses, err \in BOOLEAN, dr \in DriftResultsValues :
         /\ st \in terminalStatuses /\ st # "completed" /\ st = "failed"
         /\ now' = now + lat
         /\ scan' = [status |-> st, hasError |-> err, driftResults |-> dr]
         /\ Exit(2, <<"fail:Scan failed">> \o (IF err THEN <<"Error: scan.error">> ELSE <<>>))
    /\ outstanding' = outstanding - 1
    /\ UNCHANGED <<options, startTime, driftDetails, gateExitCode, statusFetches,
                   driftFetches, sleeps, authVars>>

\* ScanCancelled without process.exit(2) and return: the loop goes on
ScanCancelled_FallsThrough ==
    /\ pc = "fetch_scan"
    /\ ScanExists
    /\ response' = [req |-> "scan", resp |-> OkResponse]
    /\ UNCHANGED gateVars
    /\ UNCHANGED cfgVars
    /\ UNCHANGED report
    /\ UNCHANGED cmdVars
    /\ \E lat \in Latencies, st \in ServerStatuses, dr \in DriftResultsValues :
         /\ st \in terminalStatuses /\ st # "completed" /\ st # "failed"
         /\ now' = now + lat
         /\ scan' = [status |-> st, hasError |-> FALSE, driftResults |-> dr]
         /\ log' = Append(log, "warn:Scan was cancelled")
         /\ pc' = "sleeping"
    /\ outstanding' = outstanding - 1
    /\ UNCHANGED <<options, startTime, driftDetails, gateExitCode, statusFetches,
                   driftFetches, sleeps, authVars, exitCodes>>

\* status 'cancelled': spinner.warn, process.exit(2)
ScanCancelled ==
    /\ pc = "fetch_scan"
    /\ ScanExists
    /\ response' = [req |-> "scan", resp |-> OkResponse]
    /\ UNCHANGED gateVars
    /\ UNCHANGED cfgVars
    /\ UNCHANGED report
    /\ UNCHANGED cmdVars
    /\ \E lat \in Latencies, st \in ServerStatuses, dr \in DriftResultsValues :
         /\ st \in terminalStatuses /\ st # "completed" /\ st # "failed"
         /\ now' = now + lat
         /\ scan' = [status |-> st, hasError |-> FALSE, driftResults |-> dr]
         /\ Exit(2, <<"warn:Scan was cancelled">>)
    /\ outstanding' = outstanding - 1
    /\ UNCHANGED <<options, startTime, driftDetails, gateExitCode, statusFetches,
                   driftFetches, sleeps, authVars>>

\* status 'completed': handleCompletedScan either fetches the drift list
\* (driftCount > 0) or reports that there is none and returns
ScanCompleted ==
    /\ pc = "fetch_scan"
    /\ ScanExists
    /\ response' = [req |-> "scan", resp |-> OkResponse]
    /\ UNCHANGED gateVars
    /\ UNCHANGED cfgVars
    /\ UNCHANGED report
    /\ UNCHANGED cmdVars
    /\ \E lat \in Latencies, st \in ServerStatuses, dr \in DriftResultsValues :
         LET sc == [NoScan EXCEPT !.status = st, !.driftResults = dr]
         IN  /\ st \in terminalStatuses /\ st = "completed"
             /\ now' = now + lat
             /\ scan' = sc
             /\ IF DriftCount(sc) > 0
                THEN /\ pc' = "fetch_drifts"
                     /\ log' = Append(log, "succeed:Scan completed successfully")
                     /\ driftFetches' = driftFetches + 1
                     /\ outstanding' = outstanding
                     /\ UNCHANGED exitCodes
                ELSE /\ ReturnNormally(<<"succeed:Scan completed successfully", "No drifts detected">>)
                     /\ outstanding' = outstanding - 1
                     /\ UNCHANGED driftFetches
    /\ UNCHANGED <<options, startTime, driftDetails, gateExitCode, statusFetches, sleeps, authVars>>

\* the status fetch fails with 401, 403 or 429: the interceptor prints and
\* calls process.exit(1), after clearAuth() on 401
ScanFetchRejected ==
    /\ pc = "fetch_scan"
    /\ UNCHANGED gateVars
    /\ UNCHANGED cfgVars
    /\ UNCHANGED report
    /\ UNCHANGED cmdVars
    /\ \E lat \in Latencies, resp \in ErrorResponses :
         /\ ClientExits(resp)
         /\ response' = [req |-> "scan", resp |-> resp]
         /\ now' = now + lat
         /\ IF ClientClearsAuth(resp) THEN clearAuth ELSE UNCHANGED authVars
         /\ Exit(1, <<ClientMessage(resp)>>)
    /\ outstanding' = outstanding - 1
    /\ UNCHANGED <<options, startTime, scan, driftDetails, gateExitCode, statusFetches,
                   driftFetches, sleeps>>

\* ScanFetchThrows with the error caught inside the loop: it polls again
ScanFetchThrows_Retry ==
    /\ pc = "fetch_scan"
    /\ UNCHANGED gateVars
    /\ UNCHANGED cfgVars
    /\ UNCHANGED report
    /\ UNCHANGED cmdVars
    /\ \E lat \in Latencies, resp \in ErrorResponses :
         /\ ClientThrows(resp)
         /\ response' = [req |-> "scan", resp |-> resp]
         /\ now' = now + lat
    /\ pc' = "sleeping"
    /\ outstanding' = outstanding - 1
    /\ UNCHANGED <<options, startTime, scan, driftDetails, gateExitCode, statusFetches,
                   driftFetches, sleeps, authVars, log, exitCodes>>

\* the status fetch throws: catch (error) { spinner.fail; outputError; process.exit(2) }
ScanFetchThrows ==
    /\ pc = "fetch_scan"
    /\ UNCHANGED gateVars
    /\ UNCHANGED cfgVars
    /\ UNCHANGED report
    /\ UNCHANGED cmdVars
    /\ \E lat \in Latencies, resp \in ErrorResponses :
         /\ ClientThrows(resp)
         /\ response' = [req |-> "scan", resp |-> resp]
         /\ now' = now + lat
         /\ Exit(2, <<"fail:Error while waiting for scan", "outputError:error.message">>)
    /\ outstanding' = outstanding - 1
    /\ UNCHANGED <<options, startTime, scan, driftDetails, gateExitCode, statusFetches,
                   driftFetches, sleeps, authVars>>

\* getConsoleUrl(scanId) for the production API
ConsoleBase == "https://controlinfra.com/scans/"

\* gateOptions = { failOnDrift: ... || false, failOnSeverity: ... || null,
\* failOnNewOnly: ... || false }
GateOptionsOf(opts) ==
    [failOnDrift |-> opts.failOnDrift,
     failOnSeverity |-> JSOr(opts.failOnSeverity, JSNull),
     failOnNewOnly |-> opts.failOnNewOnly]

\* outputDriftTable: with isJson, the document handed to JSON.stringify;
\* keys are its own properties
outputDriftTable(id, details, driftResults, isJson, gateOptions, exitCode) ==
    LET withGate == gateOptions # JSNull /\ exitCode # JSNull
    IN  IF isJson
        THEN [printed |-> TRUE,
              keys |-> {"scanId", "consoleUrl", "summary", "drifts"}
                       \cup (IF withGate THEN {"gate"} ELSE {}),
              scanId |-> id,
              consoleUrl |-> <<ConsoleBase, id>>,
              summary |-> driftResults,
              drifts |-> details,
              gate |-> IF withGate
                       THEN [options |-> gateOptions,
                             result |-> IF exitCode = JSNum(0) THEN "passed" ELSE "failed",
                             exitCode |-> exitCode]
                       ELSE JSUndefined]
        ELSE NoReport

\* the rest of handleCompletedScan once driftDetails is known: the gate,
\* the drift table, and the exit
FinishCompletedScan(details) ==
    LET gate == evaluateDriftGate(scan, details, options)
    IN  /\ driftDetails' = details
        /\ IF HasGateOptions(options)
           THEN /\ gateExitCode' = JSNum(gate.ret)
                /\ report' = outputDriftTable(fullId, details, scan.driftResults, options.json,
                                              GateOptionsOf(options), JSNum(gate.ret))
                /\ IF gate.ret = 1
                   THEN Exit(1, gate.errors \o <<"outputDriftTable">>
                                 \o (IF options.json THEN <<>> ELSE <<"Drift gate check FAILED">>))
                   ELSE ReturnNormally(gate.errors \o <<"outputDriftTable">>
                                 \o (IF options.json THEN <<>> ELSE <<"Drift gate check PASSED">>))
           ELSE /\ gateExitCode' = JSNull
                /\ report' = outputDriftTable(fullId, details, scan.driftResults, options.json,
                                              JSNull, JSNull)
                /\ ReturnNormally(<<"outputDriftTable">>
                                 \o (IF options.json THEN <<>> ELSE <<"View drifts with">>))

\* drifts.getByScan returns: an array is kept, anything else becomes []
DriftsFetched ==
    /\ pc = "fetch_drifts"
    /\ response' = [req |-> "drifts", resp |-> OkResponse]
    /\ UNCHANGED gateVars
    /\ UNCHANGED cfgVars
    /\ UNCHANGED cmdVars
    /\ \E isArray \in BOOLEAN, ds \in WaitDriftLists :
         /\ isArray \/ ds = <<>>
         /\ FinishCompletedScan(ds)
    /\ outstanding' = outstanding - 1
    /\ UNCHANGED <<options, startTime, now, scan, statusFetches, driftFetches, sleeps, authVars>>

\* DriftFetchThrows without the inner try/catch: the catch of waitForScan exits 2
DriftFetchThrows_Propagates ==
    /\ pc = "fetch_drifts"
    /\ UNCHANGED gateVars
    /\ UNCHANGED cfgVars
    /\ UNCHANGED report
    /\ UNCHANGED cmdVars
    /\ \E resp \in ErrorResponses :
         /\ ClientThrows(resp)
         /\ response' = [req |-> "drifts", resp |-> resp]
         /\ Exit(2, <<"fail:Error while waiting for scan", "outputError:error.message">>)
    /\ outstanding' = outstanding - 1
    /\ UNCHANGED <<options, startTime, now, scan, driftDetails, gateExitCode,
                   statusFetches, driftFetches, sleeps, authVars>>

\* drifts.getByScan throws: catch (_e) {} keeps driftDetails = []
DriftFetchThrows ==
    /\ pc = "fetch_drifts"
    /\ UNCHANGED gateVars
    /\ UNCHANGED cfgVars
    /\ UNCHANGED cmdVars
    /\ \E resp \in ErrorResponses :
         /\ ClientThrows(resp)
         /\ response' = [req |-> "drifts", resp |-> resp]
         /\ FinishCompletedScan(<<>>)
    /\ outstanding' = outstanding - 1
    /\ UNCHANGED <<options, startTime, now, scan, statusFetches, driftFetches, sleeps, authVars>>

\* drifts.getByScan fails with 401, 403 or 429: the interceptor exits with 1
DriftFetchRejected ==
    /\ pc = "fetch_drifts"
    /\ UNCHANGED gateVars
    /\ UNCHANGED cfgVars
    /\ UNCHANGED report
    /\ UNCHANGED cmdVars
    /\ \E resp \in ErrorResponses :
         /\ ClientExits(resp)
         /\ response' = [req |-> "drifts", resp |-> resp]
         /\ IF ClientClearsAuth(resp) THEN clearAuth ELSE UNCHANGED authVars
         /\ Exit(1, <<ClientMessage(resp)>>)
    /\ outstanding' = outstanding - 1
    /\ UNCHANGED <<options, startTime, now, scan, driftDetails, gateExitCode,
                   statusFetches, driftFetches, sleeps>>

Next ==
    \/ PollScan
    \/ TimeoutExit
    \/ ScanInFlight
    \/ Sleep
    \/ ScanFailed
    \/ ScanCancelled
    \/ ScanCompleted
    \/ ScanFetchRejected
    \/ ScanFetchThrows
    \/ DriftsFetched
    \/ DriftFetchThrows
    \/ DriftFetchRejected

Spec == Init /\ [][Next]_vars

\* every request eventually returns, every timer fires, the loop runs on
LiveSpec == Spec /\ WF_vars(Next)

\* both entry points: the wait command, and evaluateDriftGate called directly
FullInit == Init \/ GateInit

FullNext == Next \/ GateNext

FullSpec == FullInit /\ [][FullNext]_vars

-----------------------------------------------------------------------------
(* The wait command: requireAuth, resolveScanId, the merge of the gate     *)
(* options, then waitForScan                                               *)

\* the wait command is invoked
CmdInit ==
    /\ GateIdle
    /\ pc = "start"
    /\ options = [timeout |-> JSUndefined, failOnDrift |-> FALSE,
                  failOnSeverity |-> JSNull, failOnNewOnly |-> FALSE, json |-> FALSE]
    /\ startTime = 0
    /\ now = 0
    /\ scan = NoScan
    /\ driftDetails = <<>>
    /\ gateExitCode = JSNull
    /\ statusFetches = 0
    /\ driftFetches = 0
    /\ outstanding = 0
    /\ sleeps = 0
    /\ log = <<>>
    /\ exitCodes = <<>>
    /\ token \in {Absent, StoredToken}
    /\ refreshToken = StoredRefreshToken
    /\ user = StoredUser
    /\ report = NoReport
    /\ response = NoResponse
    /\ scanId \in ScanIdValues
    /\ fullId = JSUndefined
    /\ serverScans \in ServerScanLists
    /\ cliOptions \in CliOptionValues
    /\ env \in WaitEnvValues
    /\ envDefaults = NoDefaults
    /\ listFetches = 0
    /\ CfgIdle

\* fullId is truthy: the defaults are read, the options merged and
\* waitForScan(fullId, ...) runs up to its loop
EnterWaitForScan(id) ==
    /\ fullId' = id
    /\ envDefaults' = getDriftGateDefaults(env)
    /\ options' = MergedOptions(cliOptions, getDriftGateDefaults(env))
    /\ startTime' = now
    /\ pc' = "loop_top"

\* requireAuth() finds no token: process.exit(1)
WaitNotAuthenticated ==
    /\ pc = "start"
    /\ ~isAuthenticated
    /\ Exit(1, <<"Error: Not authenticated">>)
    /\ UNCHANGED <<options, startTime, now, scan, driftDetails, gateExitCode, statusFetches,
                   driftFetches, outstanding, sleeps, authVars, response>>
    /\ UNCHANGED gateVars
    /\ UNCHANGED cfgVars
    /\ UNCHANGED report
    /\ UNCHANGED cmdVars

\* resolveScanId returns a 24-digit hexadecimal id as it is
WaitWithFullId ==
    /\ pc = "start"
    /\ isAuthenticated
    /\ IsFullId(scanId)
    /\ EnterWaitForScan(JSStr(scanId))
    /\ UNCHANGED <<now, scan, driftDetails, gateExitCode, statusFetches, driftFetches,
                   outstanding, sleeps, log, exitCodes, authVars, response>>
    /\ UNCHANGED gateVars
    /\ UNCHANGED cfgVars
    /\ UNCHANGED report
    /\ UNCHANGED <<scanId, serverScans, cliOptions, env, listFetches>>

\* resolveScanId asks for the scan list: scans.list({ limit: 100 })
WaitListsScans ==
    /\ pc = "start"
    /\ isAuthenticated
    /\ ~IsFullId(scanId)
    /\ pc' = "fetch_list"
    /\ listFetches' = listFetches + 1
    /\ outstanding' = outstanding + 1
    /\ UNCHANGED <<options, startTime, now, scan, driftDetails, gateExitCode, statusFetches,
                   driftFetches, sleeps, log, exitCodes, authVars, response>>
    /\ UNCHANGED gateVars
    /\ UNCHANGED cfgVars
    /\ UNCHANGED report
    /\ UNCHANGED <<scanId, fullId, serverScans, cliOptions, env, envDefaults>>

\* the list holds a match: waitForScan starts with its _id
ScanIdResolved ==
    /\ pc = "fetch_list"
    /\ Truthy(ResolveFromList(serverScans, scanId))
    /\ response' = [req |-> "list", resp |-> OkResponse]
    /\ outstanding' = outstanding - 1
    /\ EnterWaitForScan(ResolveFromList(serverScans, scanId))
    /\ UNCHANGED <<now, scan, driftDetails, gateExitCode, statusFetches, driftFetches,
                   sleeps, log, exitCodes, authVars>>
    /\ UNCHANGED gateVars
    /\ UNCHANGED cfgVars
    /\ UNCHANGED report
    /\ UNCHANGED <<scanId, serverScans, cliOptions, env, listFetches>>

\* the list holds no match: outputError('No scan found matching ...'); process.exit(1)
ScanIdNotFound ==
    /\ pc = "fetch_list"
    /\ ~Truthy(ResolveFromList(serverScans, scanId))
    /\ response' = [req |-> "list", resp |-> OkResponse]
    /\ outstanding' = outstanding - 1
    /\ fullId' = ResolveFromList(serverScans, scanId)
    /\ Exit(1, <<"outputError:No scan found matching">>)
    /\ UNCHANGED <<options, startTime, now, scan, driftDetails, gateExitCode, statusFetches,
                   driftFetches, sleeps, authVars>>
    /\ UNCHANGED gateVars
    /\ UNCHANGED cfgVars
    /\ UNCHANGED report
    /\ UNCHANGED <<scanId, serverScans, cliOptions, env, envDefaults, listFetches>>

\* the list request fails with 401, 403 or 429: the interceptor ends the process
ListFetchRejected ==
    /\ pc = "fetch_list"
    /\ \E resp \in ErrorResponses :
         /\ ClientExits(resp)
         /\ response' = [req |-> "list", resp |-> resp]
         /\ IF ClientClearsAuth(resp) THEN clearAuth ELSE UNCHANGED authVars
         /\ Exit(1, <<ClientMessage(resp)>>)
    /\ outstanding' = outstanding - 1
    /\ UNCHANGED <<options, startTime, now, scan, driftDetails, gateExitCode, statusFetches,
                   driftFetches, sleeps>>
    /\ UNCHANGED gateVars
    /\ UNCHANGED cfgVars
    /\ UNCHANGED report
    /\ UNCHANGED cmdVars

\* the list request throws: wait has no try/catch, the rejection leaves the
\* command unhandled and the runtime ends the process, with code 1 or, on a
\* runtime that only warns, with code 0
ListFetchThrows ==
    /\ pc = "fetch_list"
    /\ \E resp \in ErrorResponses, code \in {0, 1} :
         /\ ClientThrows(resp)
         /\ response' = [req |-> "list", resp |-> resp]
         /\ Exit(code, <<"unhandled rejection">>)
    /\ outstanding' = outstanding - 1
    /\ UNCHANGED <<options, startTime, now, scan, driftDetails, gateExitCode, statusFetches,
                   driftFetches, sleeps, authVars>>
    /\ UNCHANGED gateVars
    /\ UNCHANGED cfgVars
    /\ UNCHANGED report
    /\ UNCHANGED cmdVars

CmdNext ==
    \/ WaitNotAuthenticated
    \/ WaitWithFullId
    \/ WaitListsScans
    \/ ScanIdResolved
    \/ ScanIdNotFound
    \/ ListFetchRejected
    \/ ListFetchThrows
    \/ Next

CmdSpec == CmdInit /\ [][CmdNext]_vars

-----------------------------------------------------------------------------
(* getDriftGateDefaults called on its own *)

EnvInit ==
    /\ GateIdle
    /\ pc = "idle"
    /\ options = [timeout |-> JSUndefined, failOnDrift |-> FALSE,
                  failOnSeverity |-> JSNull, failOnNewOnly |-> FALSE, json |-> FALSE]
    /\ startTime = 0
    /\ now = 0
    /\ scan = NoScan
    /\ driftDetails = <<>>
    /\ gateExitCode = JSNull
    /\ statusFetches = 0
    /\ driftFetches = 0
    /\ outstanding = 0
    /\ sleeps = 0
    /\ log = <<>>
    /\ exitCodes = <<>>
    /\ StoredAuth
    /\ report = NoReport
    /\ response = NoResponse
    /\ scanId = Id_A
    /\ fullId = JSUndefined
    /\ serverScans = <<Id_A>>
    /\ cliOptions = NoCliOptions
    /\ env \in EnvValues
    /\ envDefaults = NoDefaults
    /\ listFetches = 0
    /\ CfgIdle

ReadDriftGateDefaults ==
    /\ pc = "idle"
    /\ envDefaults = NoDefaults
    /\ envDefaults' = getDriftGateDefaults(env)
    /\ UNCHANGED waitVars
    /\ UNCHANGED gateVars
    /\ UNCHANGED cfgVars
    /\ UNCHANGED <<scanId, fullId, serverScans, cliOptions, env, listFetches>>

EnvNext == ReadDriftGateDefaults

EnvSpec == EnvInit /\ [][EnvNext]_vars

-----------------------------------------------------------------------------
(* The login command with --token (commands/auth.js) *)

\* login({ token }) is invoked; the store may hold an earlier session
LoginInit ==
    /\ GateIdle
    /\ pc = "login"
    /\ options = [timeout |-> JSUndefined, failOnDrift |-> FALSE,
                  failOnSeverity |-> JSNull, failOnNewOnly |-> FALSE, json |-> FALSE]
    /\ startTime = 0
    /\ now = 0
    /\ scan = NoScan
    /\ driftDetails = <<>>
    /\ gateExitCode = JSNull
    /\ statusFetches = 0
    /\ driftFetches = 0
    /\ outstanding = 0
    /\ sleeps = 0
    /\ log = <<>>
    /\ exitCodes = <<>>
    /\ token \in {Absent, StoredToken}
    /\ refreshToken \in {Absent, StoredRefreshToken}
    /\ user \in {Absent, StoredUser}
    /\ response = NoResponse
    /\ report = NoReport
    /\ scanId = Id_A
    /\ fullId = JSUndefined
    /\ serverScans = <<Id_A>>
    /\ cliOptions = NoCliOptions
    /\ env = NoEnv
    /\ envDefaults = NoDefaults
    /\ listFetches = 0
    /\ loginToken \in LoginTokenValues
    /\ apiUrl = Absent
    /\ apiUrlEnv = Absent
    /\ apiUrlResult = Absent

\* what no step of login touches
LoginFrame ==
    /\ UNCHANGED <<options, startTime, now, scan, driftDetails, gateExitCode, statusFetches,
                   driftFetches, sleeps, report>>
    /\ UNCHANGED gateVars
    /\ UNCHANGED cmdVars
    /\ UNCHANGED cfgVars

\* saveAuth({ token: options.token }); auth.getMe() is issued
LoginSavesToken ==
    /\ pc = "login"
    /\ token' = loginToken
    /\ UNCHANGED <<refreshToken, user>>
    /\ pc' = "verify"
    /\ outstanding' = outstanding + 1
    /\ UNCHANGED <<log, exitCodes, response>>
    /\ LoginFrame

\* getMe returns, as { user } or as the user itself: saveAuth({ user }),
\* spinner.succeed, showDashboard asks for the statistics
LoginVerified ==
    /\ pc = "verify"
    /\ \E userData \in GetMeBodies :
         /\ response' = [req |-> "getMe", resp |-> OkResponse]
         /\ user' = UserOfBody(userData)
    /\ UNCHANGED <<token, refreshToken>>
    /\ pc' = "dashboard"
    /\ log' = Append(log, "succeed:Logged in successfully")
    /\ UNCHANGED <<outstanding, exitCodes>>
    /\ LoginFrame

\* getMe throws: catch (error) { spinner.fail('Invalid token'); clearAuth(); process.exit(1) }
LoginVerifyThrows ==
    /\ pc = "verify"
    /\ \E resp \in ErrorResponses :
         /\ ClientThrows(resp)
         /\ response' = [req |-> "getMe", resp |-> resp]
    /\ clearAuth
    /\ Exit(1, <<"fail:Invalid token">>)
    /\ outstanding' = outstanding - 1
    /\ LoginFrame

\* getMe is answered with 401, 403 or 429: the interceptor ends the process,
\* after clearAuth() on 401 only; the catch block of login does not run
LoginVerifyRejected ==
    /\ pc = "verify"
    /\ \E resp \in ErrorResponses :
         /\ ClientExits(resp)
         /\ response' = [req |-> "getMe", resp |-> resp]
         /\ IF ClientClearsAuth(resp) THEN clearAuth ELSE UNCHANGED authVars
         /\ Exit(1, <<ClientMessage(resp)>>)
    /\ outstanding' = outstanding - 1
    /\ LoginFrame

\* the dashboard requests settle: each has its own .catch, so login returns
LoginDashboardShown ==
    /\ pc = "dashboard"
    /\ \E resp \in {OkResponse} \cup ErrorResponses :
         /\ ~ClientExits(resp)
         /\ response' = [req |-> "dashboard", resp |-> resp]
    /\ UNCHANGED authVars
    /\ ReturnNormally(<<"dashboard">>)
    /\ outstanding' = outstanding - 1
    /\ LoginFrame

\* a dashboard request is answered with 401, 403 or 429: the interceptor
\* ends the process
LoginDashboardRejected ==
    /\ pc = "dashboard"
    /\ \E resp \in ErrorResponses :
         /\ ClientExits(resp)
         /\ response' = [req |-> "dashboard", resp |-> resp]
         /\ IF ClientClearsAuth(resp) THEN clearAuth ELSE UNCHANGED authVars
         /\ Exit(1, <<ClientMessage(resp)>>)
    /\ outstanding' = outstanding - 1
    /\ LoginFrame

LoginNext ==
    \/ LoginSavesToken
    \/ LoginVerified
    \/ LoginVerifyThrows
    \/ LoginVerifyRejected
    \/ LoginDashboardShown
    \/ LoginDashboardRejected

LoginSpec == LoginInit /\ [][LoginNext]_vars

-----------------------------------------------------------------------------
(* getApiUrl called on its own *)

ApiUrlInit ==
    /\ GateIdle
    /\ pc = "idle"
    /\ options = [timeout |-> JSUndefined, failOnDrift |-> FALSE,
                  failOnSeverity |-> JSNull, failOnNewOnly |-> FALSE, json |-> FALSE]
    /\ startTime = 0
    /\ now = 0
    /\ scan = NoScan
    /\ driftDetails = <<>>
    /\ gateExitCode = JSNull
    /\ statusFetches = 0
    /\ driftFetches = 0
    /\ outstanding = 0
    /\ sleeps = 0
    /\ log = <<>>
    /\ exitCodes = <<>>
    /\ StoredAuth
    /\ response = NoResponse
    /\ report = NoReport
    /\ scanId = Id_A
    /\ fullId = JSUndefined
    /\ serverScans = <<Id_A>>
    /\ cliOptions = NoCliOptions
    /\ env = NoEnv
    /\ envDefaults = NoDefaults
    /\ listFetches = 0
    /\ loginToken = Absent
    /\ apiUrl \in StoredUrlValues
    /\ apiUrlEnv \in EnvUrlValues
    /\ apiUrlResult = Absent

CallGetApiUrl ==
    /\ pc = "idle"
    /\ apiUrlResult = Absent
    /\ apiUrlResult' = getApiUrl(apiUrlEnv, apiUrl).ret
    /\ apiUrl' = getApiUrl(apiUrlEnv, apiUrl).stored
    /\ UNCHANGED <<loginToken, apiUrlEnv>>
    /\ UNCHANGED waitVars
    /\ UNCHANGED gateVars
    /\ UNCHANGED cmdVars

ApiUrlNext == CallGetApiUrl

ApiUrlSpec == ApiUrlInit /\ [][ApiUrlNext]_vars

-----------------------------------------------------------------------------
(* Properties of the wait command *)

Exited == pc = "exited"

\* the API client ended the process itself (401, 403 or 429 on the last request)
ClientAborted == response.req # "none" /\ response.resp.http \in {401, 403, 429}

\* gate flags are configured: --fail-on-drift or a non-empty --fail-on-severity
GateConfigured ==
    \/ options.failOnDrift
    \/ (options.failOnSeverity.t = "string" /\ options.failOnSeverity.s # <<>>)

\* the exit code the gate decides for the fetched drift list
GateDecision ==
    IF GateConfigured /\ evaluateDriftGate(scan, driftDetails, options).ret = 1 THEN 1 ELSE 0

\* C1 (as stated): whenever the wait command has observed status `completed`
\* and the process has ended, the exit code is 1 exactly when gate flags are
\* configured and evaluateDriftGate returns 1 on the fetched drift list, and
\* 0 in every other case.
C1_Original ==
    (Exited /\ scan.status = "completed") => exitCodes = <<GateDecision>>

\* C1 (amended): the same, unless the drift-list request was answered with
\* HTTP 401, 403 or 429: then the API client ends the process with code 1
\* before the gate is evaluated.
C1_ExitCodeOfCompletedScan ==
    (Exited /\ scan.status = "completed") =>
        IF ClientAborted
        THEN exitCodes = <<1>> /\ gateExitCode = JSNull
        ELSE exitCodes = <<GateDecision>>

\* a completed scan whose fetched drifts made a configured gate fail
C1_Witness ==
    /\ Exited
    /\ scan.status = "completed"
    /\ ~ClientAborted
    /\ GateConfigured
    /\ Len(driftDetails) > 0
    /\ exitCodes = <<1>>

\* C2: whenever a poll has observed status `failed` or `cancelled`, the
\* process has exited with code 2, whatever the gate options are; the gate
\* was not evaluated and no drift list was fetched.
C2_FailedOrCancelledExits2 ==
    (scan.status \in {"failed", "cancelled"}) =>
        /\ Exited
        /\ exitCodes = <<2>>
        /\ gateExitCode = JSNull
        /\ driftFetches = 0
        /\ driftDetails = <<>>

\* a cancelled scan whose summary reports drift, seen on a later poll, with
\* both gate flags set
C2_Witness ==
    /\ scan.status = "cancelled"
    /\ scan.driftResults.hasDrift
    /\ DriftCount(scan) > 0
    /\ options.failOnDrift
    /\ Truthy(options.failOnSeverity)
    /\ statusFetches >= 2
    /\ exitCodes = <<2>>

\* the last line printed
LastLog == IF log = <<>> THEN "" ELSE log[Len(log)]

\* C3: a step taken at the top of the loop with elapsed time >= timeout
\* reports the timeout and exits with code 2, whatever the gate options are.
C3_TimeoutExits2 ==
    [][(/\ pc = "loop_top"
        /\ ~TimeoutMs(options).nan
        /\ now - startTime >= TimeoutMs(options).v)
       => (/\ pc' = "exited"
           /\ exitCodes' = <<2>>
           /\ LastLog' = "fail:Timeout waiting for scan to complete"
           /\ statusFetches' = statusFetches
           /\ driftFetches' = 0)]_vars

\* a timeout after the scan was polled and found in flight, gate flags set
C3_Witness ==
    /\ Exited
    /\ LastLog = "fail:Timeout waiting for scan to complete"
    /\ sleeps >= 2
    /\ now - startTime = TimeoutMs(options).v
    /\ options.failOnDrift
    /\ exitCodes = <<2>>

\* the step in which a status fetch settles with a failure
StatusFetchFails == pc = "fetch_scan" /\ response'.req = "scan" /\ response'.resp # OkResponse

\* C4 (as stated): every failing status fetch, HTTP 401, 403 and 429
\* included, ends the wait with exit code 2.
C4_Original ==
    [][StatusFetchFails => (pc' = "exited" /\ exitCodes' = <<2>>)]_vars

\* C4 (amended): every failing status fetch ends the wait at once, with no
\* further status fetch: with exit code 2 when the request throws (connection
\* errors, 404, 5xx), and with exit code 1, set by the API client, on HTTP
\* 401, 403 and 429; never with 0. Nothing runs after the exit.
C4_FailingFetchEndsWait ==
    [][/\ StatusFetchFails =>
            /\ pc' = "exited"
            /\ statusFetches' = statusFetches
            /\ exitCodes' = <<IF response'.resp.http \in {401, 403, 429} THEN 1 ELSE 2>>
       /\ pc = "exited" => FALSE]_vars

\* a connection error on the second status fetch
C4_Witness ==
    /\ Exited
    /\ response = [req |-> "scan", resp |-> [http |-> 0, code |-> "ECONNREFUSED"]]
    /\ statusFetches = 2
    /\ exitCodes = <<2>>

\* the outcomes of the poller that have been reported so far
Outcomes ==
    {o \in {"success", "terminal-failure", "timeout", "transport-error"} :
        \E i \in DOMAIN log :
            \/ o = "success" /\ log[i] = "succeed:Scan completed successfully"
            \/ o = "terminal-failure" /\ log[i] \in {"fail:Scan failed", "warn:Scan was cancelled"}
            \/ o = "timeout" /\ log[i] = "fail:Timeout waiting for scan to complete"
            \/ o = "transport-error" /\ log[i] = "fail:Error while waiting for scan"}

\* the API client ended the process on a status fetch
ClientAbortedPoll == response.req = "scan" /\ response.resp.http \in {401, 403, 429}

\* C5 (as stated, its safety half): an ended wait has reported exactly one of
\* success, terminal-failure, timeout, transport-error and produced one exit code.
C5_Original ==
    Exited => (Cardinality(Outcomes) = 1 /\ Len(exitCodes) = 1)

\* C5 (amended): every wait terminates, and it ends in exactly one of five
\* outcomes: success, terminal-failure, timeout, transport-error, or the API
\* client ending the process on a 401, 403 or 429 status response; no run
\* ends without one of them, none has two, and exactly one exit code is
\* produced, at the end.
C5_TerminatesWithOneOutcome ==
    /\ <>Exited
    /\ [](Exited =>
            /\ Cardinality(Outcomes) + (IF ClientAbortedPoll THEN 1 ELSE 0) = 1
            /\ Len(exitCodes) = 1)
    /\ [](~Exited => (exitCodes = <<>> /\ Outcomes \subseteq {"success"}))

\* a wait with a positive timeout that ended in the timeout outcome after polling
C5_Witness ==
    /\ Exited
    /\ Outcomes = {"timeout"}
    /\ TimeoutMs(options).v > 0
    /\ statusFetches >= 2
    /\ exitCodes = <<2>>

-----------------------------------------------------------------------------
(* Properties of evaluateDriftGate *)

Returned == gpc = "returned"

\* the scan summary reports drift: hasDrift is true and totalDrifts > 0
ReportsDrift ==
    /\ gScan.driftResults.present
    /\ gScan.driftResults.hasDrift
    /\ gScan.driftResults.totalDrifts.t = "number"
    /\ gScan.driftResults.totalDrifts.n > 0

\* the positions of the relevant drifts: all of them, or with failOnNewOnly
\* those whose isNew is true
RelevantIndexes ==
    {i \in DOMAIN gDrifts : gOptions.failOnNewOnly => gDrifts[i].isNew = JSBool(TRUE)}

\* the severity order low=1 < medium=2 < high=3 < critical=4, 0 for anything else
SeverityRank(chars) ==
    CASE ToLowerCase(chars) = S_low -> 1
      [] ToLowerCase(chars) = S_medium -> 2
      [] ToLowerCase(chars) = S_high -> 3
      [] ToLowerCase(chars) = S_critical -> 4
      [] OTHER -> 0

\* failOnSeverity is one of critical, high, medium, low, in any letter case
ValidThreshold == gOptions.failOnSeverity.t = "string" /\ SeverityRank(gOptions.failOnSeverity.s) > 0

\* failOnSeverity is null, undefined or the empty string
SeverityFalsy == gOptions.failOnSeverity.t # "string" \/ gOptions.failOnSeverity.s = <<>>

\* C6: evaluateDriftGate returns 0 whenever driftResults is absent, hasDrift
\* is false or totalDrifts is 0, for every drift list and all options.
C6_NoDriftPasses ==
    (/\ Returned
     /\ \/ ~gScan.driftResults.present
        \/ ~gScan.driftResults.hasDrift
        \/ gScan.driftResults.totalDrifts = JSNum(0))
    => (gResult = JSNum(0) /\ gErrors = <<>>)

\* hasDrift true with totalDrifts 0, a drift in the list, failOnDrift and an
\* invalid failOnSeverity
C6_Witness ==
    /\ Returned
    /\ gScan.driftResults.present
    /\ gScan.driftResults.hasDrift
    /\ gScan.driftResults.totalDrifts = JSNum(0)
    /\ Len(gDrifts) > 0
    /\ gOptions.failOnDrift
    /\ gOptions.failOnSeverity = JSStr(S_invalid)
    /\ gResult = JSNum(0)

\* C7: with drift reported, failOnDrift true, failOnSeverity falsy and a
\* non-empty relevant drift list, the result is 1 whatever the severities.
C7_FailOnDriftFails ==
    (/\ Returned
     /\ ReportsDrift
     /\ gOptions.failOnDrift
     /\ SeverityFalsy
     /\ RelevantIndexes # {})
    => gResult = JSNum(1)

\* failOnDrift with failOnNewOnly, a new drift without severity after a recurring one
C7_Witness ==
    /\ Returned
    /\ ReportsDrift
    /\ gOptions.failOnDrift
    /\ gOptions.failOnNewOnly
    /\ gOptions.failOnSeverity = JSStr(<<>>)
    /\ Len(gDrifts) = 2
    /\ gDrifts[1].isNew = JSBool(FALSE)
    /\ gDrifts[2] = [severity |-> JSUndefined, isNew |-> JSBool(TRUE)]
    /\ gResult = JSNum(1)

\* some relevant drift has a severity rank >= the threshold's rank
SomeDriftAtOrAbove ==
    \E i \in RelevantIndexes :
        /\ gDrifts[i].severity.t = "string"
        /\ SeverityRank(gDrifts[i].severity.s) >= SeverityRank(gOptions.failOnSeverity.s)

\* C8: with a valid threshold and drift reported, the result is 1 exactly
\* when some relevant drift ranks at or above the threshold (inclusive).
C8_ThresholdInclusive ==
    (Returned /\ ReportsDrift /\ ValidThreshold)
    => (gResult = JSNum(IF SomeDriftAtOrAbove THEN 1 ELSE 0))

\* a single drift exactly at the threshold fails the gate
C8_Witness ==
    /\ Returned
    /\ ReportsDrift
    /\ gOptions.failOnSeverity = JSStr(S_medium)
    /\ ~gOptions.failOnDrift
    /\ Len(gDrifts) = 1
    /\ gDrifts[1].severity = JSStr(S_medium)
    /\ gResult = JSNum(1)

\* C9: with failOnDrift and a valid failOnSeverity both set, relevant drifts
\* that all rank below the threshold give 0 although drifts exist.
C9_SeverityTakesPrecedence ==
    (/\ Returned
     /\ ReportsDrift
     /\ gOptions.failOnDrift
     /\ ValidThreshold
     /\ ~SomeDriftAtOrAbove)
    => gResult = JSNum(0)

\* failOnDrift and threshold critical, two relevant drifts below it
C9_Witness ==
    /\ Returned
    /\ ReportsDrift
    /\ gOptions.failOnDrift
    /\ ~gOptions.failOnNewOnly
    /\ gOptions.failOnSeverity = JSStr(S_critical)
    /\ Len(gDrifts) = 2
    /\ gDrifts[1].severity = JSStr(S_high)
    /\ gDrifts[2].severity = JSStr(S_low)
    /\ gResult = JSNum(0)

\* C10: a non-empty failOnSeverity that is not critical, high, medium or low
\* when lowercased is reported and makes the gate fail (here: for a scan that
\* reports drift and has a relevant drift, where the gate reaches the check).
C10_InvalidSeverityFails ==
    (/\ Returned
     /\ ReportsDrift
     /\ RelevantIndexes # {}
     /\ gOptions.failOnSeverity.t = "string"
     /\ gOptions.failOnSeverity.s # <<>>
     /\ SeverityRank(gOptions.failOnSeverity.s) = 0)
    => (gResult = JSNum(1) /\ gErrors # <<>>)

\* a drift counts as new only when isNew is the boolean true
IsNewDrift(d) == d.isNew = JSBool(TRUE)

\* ds with d inserted after position k
InsertAt(ds, k, d) == SubSeq(ds, 1, k) \o <<d>> \o SubSeq(ds, k + 1, Len(ds))

\* ds without its element at position i
RemoveAt(ds, i) == SubSeq(ds, 1, i - 1) \o SubSeq(ds, i + 1, Len(ds))

\* C11: with failOnNewOnly, inserting anywhere a drift whose isNew is false
\* or absent, of any severity, or removing such a drift, leaves the result
\* unchanged, for every failOnDrift and failOnSeverity.
C11_OnlyNewDriftsCount ==
    (Returned /\ gOptions.failOnNewOnly) =>
        /\ \A d \in {x \in DriftValues : ~IsNewDrift(x)}, k \in 0..Len(gDrifts) :
               JSNum(evaluateDriftGate(gScan, InsertAt(gDrifts, k, d), gOptions).ret) = gResult
        /\ \A i \in DOMAIN gDrifts :
               ~IsNewDrift(gDrifts[i]) =>
                   JSNum(evaluateDriftGate(gScan, RemoveAt(gDrifts, i), gOptions).ret) = gResult

\* failOnNewOnly with failOnDrift: a recurring critical drift and a drift
\* without isNew, and the gate passes
C11_Witness ==
    /\ Returned
    /\ ReportsDrift
    /\ gOptions.failOnNewOnly
    /\ gOptions.failOnDrift
    /\ Len(gDrifts) = 2
    /\ gDrifts[1] = [severity |-> JSStr(S_critical), isNew |-> JSBool(FALSE)]
    /\ gDrifts[2].isNew = JSUndefined
    /\ gResult = JSNum(0)

\* the rank of a drift's severity, 0 when it is missing
DriftRank(d) == IF d.severity.t = "string" THEN SeverityRank(d.severity.s) ELSE 0

C13_UnknownSeverityRanksZero ==
    (/\ Returned
     /\ ValidThreshold
     /\ \A i \in DOMAIN gDrifts : DriftRank(gDrifts[i]) = 0)
    => gResult = JSNum(0)

\* threshold low, drift reported, a drift without severity and one with an
\* unrecognised severity, both relevant
C13_Witness ==
    /\ Returned
    /\ ReportsDrift
    /\ gOptions.failOnSeverity = JSStr(S_low)
    /\ Len(gDrifts) = 2
    /\ gDrifts[1] = [severity |-> JSUndefined, isNew |-> JSBool(TRUE)]
    /\ gDrifts[2] = [severity |-> JSStr(S_invalid), isNew |-> JSBool(TRUE)]
    /\ gResult = JSNum(0)

ToUpperChar(c) ==
    IF \E i \in 1..26 : LowerChars[i] = c
    THEN UpperChars[CHOOSE i \in 1..26 : LowerChars[i] = c]
    ELSE c

\* a string with the letter case changed: all upper, all lower, or only the
\* first letter upper
Recase(chars, how) ==
    [i \in 1..Len(chars) |->
        CASE how = "upper" -> ToUpperChar(chars[i])
          [] how = "lower" -> ToLowerChar(chars[i])
          [] how = "title" -> IF i = 1 THEN ToUpperChar(chars[i]) ELSE ToLowerChar(chars[i])
          [] OTHER -> chars[i]]

RecaseValue(x, how) == IF x.t = "string" THEN JSStr(Recase(x.s, how)) ELSE x

\* C14: changing the letter case of failOnSeverity and of every drift's
\* severity, each in any of these ways, leaves the result unchanged.
C14_CaseInsensitive ==
    Returned =>
        \A ho \in {"upper", "lower", "title", "same"}, hd \in {"upper", "lower", "title", "same"} :
            JSNum(evaluateDriftGate(
                    gScan,
                    [i \in DOMAIN gDrifts |->
                        [gDrifts[i] EXCEPT !.severity = RecaseValue(gDrifts[i].severity, hd)]],
                    [gOptions EXCEPT !.failOnSeverity = RecaseValue(gOptions.failOnSeverity, ho)]).ret)
            = gResult

\* threshold `high` against a drift whose severity is spelled HIGH
C14_Witness ==
    /\ Returned
    /\ ReportsDrift
    /\ gOptions.failOnSeverity = JSStr(S_high)
    /\ Len(gDrifts) = 1
    /\ gDrifts[1].severity = JSStr(S_HIGH)
    /\ gResult = JSNum(1)

\* C15: when no drift is relevant (the list is empty, or failOnNewOnly
\* leaves none), the result is 0 for every failOnDrift and failOnSeverity,
\* also when the summary reports drift.
C15_NoRelevantDriftPasses ==
    (Returned /\ RelevantIndexes = {}) => (gResult = JSNum(0) /\ gErrors = <<>>)

\* the summary reports drift, failOnNewOnly filters both drifts out,
\* failOnDrift and an invalid failOnSeverity are set
C15_Witness ==
    /\ Returned
    /\ ReportsDrift
    /\ gOptions.failOnNewOnly
    /\ gOptions.failOnDrift
    /\ gOptions.failOnSeverity = JSStr(S_invalid)
    /\ Len(gDrifts) = 2
    /\ gResult = JSNum(0)

\* C16 (as stated): with failOnDrift false and failOnSeverity falsy,
\* evaluateDriftGate returns 0 for every scan and list whatever failOnNewOnly
\* is, and the wait command exits with 0 on a completed scan.
C16_Original ==
    /\ (Returned /\ ~gOptions.failOnDrift /\ SeverityFalsy) => gResult = JSNum(0)
    /\ (Exited /\ scan.status = "completed" /\ ~GateConfigured) => exitCodes = <<0>>

\* C16 (amended): the same, except that the wait command exits with 1 when
\* the drift-list request is answered with HTTP 401, 403 or 429, where the
\* API client ends the process.
C16_NewOnlyAloneNeverFails ==
    /\ (Returned /\ ~gOptions.failOnDrift /\ SeverityFalsy) => gResult = JSNum(0)
    /\ (Exited /\ scan.status = "completed" /\ ~GateConfigured) =>
           exitCodes = IF ClientAborted THEN <<1>> ELSE <<0>>

\* failOnNewOnly alone on a completed scan whose fetched list holds a new
\* critical drift: the command ends with 0
C16_Witness ==
    /\ Exited
    /\ scan.status = "completed"
    /\ options.failOnNewOnly
    /\ ~GateConfigured
    /\ Len(driftDetails) = 1
    /\ driftDetails[1] = [severity |-> JSStr(S_critical), isNew |-> JSBool(TRUE)]
    /\ exitCodes = <<0>>

-----------------------------------------------------------------------------
(* Properties of the wait command's entry *)

\* some scan of the server has the identifier typed, or an _id ending with it
Resolvable ==
    \E i \in DOMAIN serverScans :
        serverScans[i] = scanId \/ EndsWith(serverScans[i], scanId)

\* C18 (as stated): when the identifier cannot be resolved to an existing
\* scan, no status fetch is ever issued and the command exits with code 1.
C18_Original ==
    ~Resolvable =>
        /\ statusFetches = 0
        /\ (Exited /\ (response.req = "list" => response.resp = OkResponse)) => exitCodes = <<1>>

\* C18 (amended): when resolveScanId yields null, which it does exactly when
\* the identifier is not 24 hexadecimal digits and the scan list holds no
\* _id equal to it or ending with it, the command reports `No scan found`
\* and exits with code 1 after the one list request, with no status fetch.
\* A 24-digit hexadecimal identifier of no scan is polled once instead, and
\* the failing status fetch ends the command with code 2, or 1 where the
\* API client ends the process.
C18_UnresolvedIdExits1 ==
    /\ fullId = JSNull =>
           /\ Exited
           /\ exitCodes = <<1>>
           /\ LastLog = "outputError:No scan found matching"
           /\ statusFetches = 0
           /\ listFetches = 1
    /\ (response.req = "list" /\ response.resp = OkResponse) =>
           (fullId = JSNull <=> (~IsFullId(scanId) /\ ~Resolvable))
    /\ (IsFullId(scanId) /\ ~Resolvable /\ Exited /\ response.req # "none") =>
           /\ statusFetches = 1
           /\ exitCodes = IF ClientAborted THEN <<1>> ELSE <<2>>

\* the tail of no scan's _id was typed and the command has ended with code 1
C18_Witness ==
    /\ scanId = <<"f","f","f","f">>
    /\ fullId = JSNull
    /\ Exited
    /\ exitCodes = <<1>>
    /\ listFetches = 1

\* wait has read the defaults and called waitForScan
Entered == envDefaults # NoDefaults

\* C19 (as stated): each gate option passed to waitForScan equals the CLI
\* value when the CLI supplies one, and the environment default otherwise.
C19_Original ==
    Entered =>
        /\ options.failOnDrift =
               IF cliOptions.failOnDrift # JSUndefined
               THEN cliOptions.failOnDrift = JSBool(TRUE)
               ELSE envDefaults.failOnDrift = JSBool(TRUE)
        /\ options.failOnSeverity =
               IF cliOptions.failOnSeverity # JSUndefined
               THEN cliOptions.failOnSeverity
               ELSE envDefaults.failOnSeverity
        /\ options.failOnNewOnly =
               IF cliOptions.failOnNewOnly # JSUndefined
               THEN cliOptions.failOnNewOnly = JSBool(TRUE)
               ELSE envDefaults.failOnNewOnly = JSBool(TRUE)

\* the CLI supplies a value that counts: a flag that is set, a severity that
\* is a non-empty string
Supplied(x) == x = JSBool(TRUE) \/ (x.t = "string" /\ x.s # <<>>)

\* C19 (amended): each gate option passed to waitForScan equals the CLI
\* value when the CLI supplies a flag or a non-empty severity, and the
\* environment default otherwise, also when --fail-on-severity is given
\* with an empty string.
C19_CliOverEnvironment ==
    Entered =>
        /\ options.failOnDrift =
               IF Supplied(cliOptions.failOnDrift)
               THEN cliOptions.failOnDrift = JSBool(TRUE)
               ELSE envDefaults.failOnDrift = JSBool(TRUE)
        /\ options.failOnSeverity =
               IF Supplied(cliOptions.failOnSeverity)
               THEN cliOptions.failOnSeverity
               ELSE envDefaults.failOnSeverity
        /\ options.failOnNewOnly =
               IF Supplied(cliOptions.failOnNewOnly)
               THEN cliOptions.failOnNewOnly = JSBool(TRUE)
               ELSE envDefaults.failOnNewOnly = JSBool(TRUE)
        /\ options.timeout = cliOptions.timeout

\* --fail-on-severity high over a default of low, and failOnDrift taken
\* from the environment
C19_Witness ==
    /\ Entered
    /\ cliOptions.failOnSeverity = JSStr(S_high)
    /\ envDefaults.failOnSeverity = JSStr(S_low)
    /\ options.failOnSeverity = JSStr(S_high)
    /\ cliOptions.failOnDrift = JSUndefined
    /\ envDefaults.failOnDrift = JSBool(TRUE)
    /\ options.failOnDrift

-----------------------------------------------------------------------------
(* Properties of getDriftGateDefaults *)

\* C20: failOnDrift and failOnNewOnly are true exactly when their variable
\* is the string `true`, so `TRUE`, `1`, `yes`, `false`, the empty string and
\* an unset variable give false; failOnSeverity is the variable's value when
\* it is a non-empty string and null when it is empty or unset.
C20_DefaultsFromEnvironment ==
    envDefaults # NoDefaults =>
        /\ envDefaults.failOnDrift =
               JSBool(/\ env.CONTROLINFRA_FAIL_ON_DRIFT.t = "string"
                      /\ env.CONTROLINFRA_FAIL_ON_DRIFT.s = <<"t","r","u","e">>)
        /\ envDefaults.failOnNewOnly =
               JSBool(/\ env.CONTROLINFRA_FAIL_ON_NEW_ONLY.t = "string"
                      /\ env.CONTROLINFRA_FAIL_ON_NEW_ONLY.s = <<"t","r","u","e">>)
        /\ envDefaults.failOnSeverity =
               IF /\ env.CONTROLINFRA_FAIL_ON_SEVERITY.t = "string"
                  /\ env.CONTROLINFRA_FAIL_ON_SEVERITY.s # <<>>
               THEN env.CONTROLINFRA_FAIL_ON_SEVERITY
               ELSE JSNull

\* FAIL_ON_DRIFT=1, FAIL_ON_NEW_ONLY=true and an empty FAIL_ON_SEVERITY
C20_Witness ==
    /\ env.CONTROLINFRA_FAIL_ON_DRIFT = JSStr(S_1)
    /\ env.CONTROLINFRA_FAIL_ON_NEW_ONLY = JSStr(S_true)
    /\ env.CONTROLINFRA_FAIL_ON_SEVERITY = JSStr(<<>>)
    /\ envDefaults = [failOnDrift |-> JSBool(FALSE), failOnSeverity |-> JSNull,
                      failOnNewOnly |-> JSBool(TRUE)]

-----------------------------------------------------------------------------
(* Properties of the polling loop *)

\* the step in which a status fetch settles with a scan object
StatusArrives == pc = "fetch_scan" /\ response'.req = "scan" /\ response'.resp = OkResponse

\* the three statuses that end the wait
TerminalSeen == scan.status \in {"completed", "failed", "cancelled"}

\* C25: a status fetch that returns any status other than completed, failed
\* and cancelled, an unknown string and a missing status included, produces
\* no exit code and no report: the command sleeps one poll interval and is
\* back at the top of the loop, where it polls again while the timeout has
\* not elapsed.
C25_OnlyTerminalSetEndsWait ==
    [][/\ (StatusArrives /\ scan'.status \notin {"completed", "failed", "cancelled"}) =>
              /\ pc' = "sleeping"
              /\ exitCodes' = exitCodes
              /\ log' = log
              /\ statusFetches' = statusFetches
       /\ pc = "sleeping" =>
              /\ pc' = "loop_top"
              /\ sleeps' = sleeps + 1
              /\ exitCodes' = exitCodes
       /\ (pc = "loop_top" /\ WithinTimeout) =>
              /\ pc' = "fetch_scan"
              /\ statusFetches' = statusFetches + 1]_vars

\* a status the client has never seen, then a missing status, were each
\* followed by a sleep, and a third status fetch is under way
C25_Witness ==
    /\ pc = "fetch_scan"
    /\ statusFetches = 3
    /\ sleeps = 2
    /\ scan.status = MissingStatus
    /\ exitCodes = <<>>

\* C26: when the k-th status fetch is the first to return a terminal status,
\* exactly k status fetches are issued: k-1 sleeps were taken before it, its
\* response decides the outcome, and no status fetch follows it.
C26_ExactlyKFetches ==
    [][/\ (StatusArrives /\ TerminalSeen') =>
              /\ statusFetches' = sleeps' + 1
              /\ Outcomes' = IF scan'.status = "completed" THEN {"success"} ELSE {"terminal-failure"}
       /\ TerminalSeen =>
              /\ statusFetches' = statusFetches
              /\ scan' = scan
              /\ Outcomes' = Outcomes]_vars

\* two polls found the scan in flight and the third found it cancelled
C26_Witness ==
    /\ Exited
    /\ scan.status = "cancelled"
    /\ statusFetches = 3
    /\ sleeps = 2
    /\ exitCodes = <<2>>

\* C27: at most one request is outstanding; a status fetch starts only when
\* none is outstanding and every earlier one was followed by its sleep;
\* each sleep lasts the poll interval of 3000 ms and follows a status that
\* is not terminal.
C27_SequentialPolling ==
    [][/\ outstanding' \in {0, 1}
       /\ statusFetches' = statusFetches + 1 =>
              /\ outstanding = 0
              /\ outstanding' = 1
              /\ sleeps = statusFetches
       /\ sleeps' # sleeps =>
              /\ sleeps' = sleeps + 1
              /\ now' = now + 3000
              /\ outstanding = 0
              /\ ~TerminalSeen
              /\ statusFetches = sleeps'
       /\ TerminalSeen => sleeps' = sleeps]_vars

\* the third status fetch is outstanding after two sleeps
C27_Witness ==
    /\ pc = "fetch_scan"
    /\ outstanding = 1
    /\ statusFetches = 3
    /\ sleeps = 2
    /\ now - startTime >= 6000

\* C28: the timeout is reported only by the check at the top of the loop;
\* a status fetch that returns a terminal status decides the outcome, also
\* when it returns after the deadline.
C28_TimeoutOnlyAtLoopTop ==
    [][/\ ("timeout" \in Outcomes' /\ "timeout" \notin Outcomes) =>
              /\ pc = "loop_top"
              /\ ~WithinTimeout
              /\ now' = now
       /\ (StatusArrives /\ TerminalSeen') =>
              /\ Outcomes' = IF scan'.status = "completed" THEN {"success"} ELSE {"terminal-failure"}
              /\ scan'.status # "completed" => exitCodes' = <<2>>
       /\ TerminalSeen => "timeout" \notin Outcomes']_vars

\* a status fetch issued in time returned `failed` after the deadline
C28_Witness ==
    /\ Exited
    /\ scan.status = "failed"
    /\ ~TimeoutMs(options).nan
    /\ now - startTime > TimeoutMs(options).v
    /\ Outcomes = {"terminal-failure"}
    /\ exitCodes = <<2>>

\* the drift-list request has failed
DriftFetchFailed == response.req = "drifts" /\ response.resp # OkResponse

\* C29 (as stated): after a failed drift-list request the wait command has
\* exited with 0, for every gate configuration.
C29_Original ==
    (Exited /\ DriftFetchFailed) => exitCodes = <<0>>

\* C29 (amended): a drift-list request that throws is swallowed and the gate
\* is evaluated against an empty list: the command exits with 0 for every
\* gate configuration, never with 2; a drift-list request answered with 401,
\* 403 or 429 ends the process in the API client, with code 1 and without
\* evaluating the gate.
C29_DriftFetchFailureSwallowed ==
    (Exited /\ DriftFetchFailed) =>
        IF ClientAborted
        THEN exitCodes = <<1>> /\ gateExitCode = JSNull
        ELSE /\ exitCodes = <<0>>
             /\ driftDetails = <<>>
             /\ gateExitCode = IF GateConfigured THEN JSNum(0) ELSE JSNull
             /\ "fail:Error while waiting for scan" \notin {log[i] : i \in DOMAIN log}

\* the drift list could not be fetched (HTTP 500) for a scan with drift,
\* failOnDrift is set, and the command has ended with 0
C29_Witness ==
    /\ Exited
    /\ response = [req |-> "drifts", resp |-> [http |-> 500, code |-> ""]]
    /\ options.failOnDrift
    /\ scan.driftResults.hasDrift
    /\ scan.driftResults.totalDrifts = JSNum(1)
    /\ exitCodes = <<0>>

\* the summary of the observed scan carries a positive totalDrifts
TotalDriftsPositive ==
    /\ scan.driftResults.present
    /\ scan.driftResults.totalDrifts.t = "number"
    /\ scan.driftResults.totalDrifts.n > 0

\* C30: the drift list is fetched at most once, and only after a status
\* fetch returned `completed` with totalDrifts > 0; a completed scan whose
\* totalDrifts is 0 or missing exits with 0 without a drift fetch and
\* without evaluating the gate.
C30_DriftListFetchedOnce ==
    /\ driftFetches \in {0, 1}
    /\ driftFetches = 1 => (scan.status = "completed" /\ TotalDriftsPositive)
    /\ pc = "fetch_drifts" => driftFetches = 1
    /\ (scan.status = "completed" /\ ~TotalDriftsPositive) =>
           /\ Exited
           /\ exitCodes = <<0>>
           /\ driftFetches = 0
           /\ gateExitCode = JSNull
           /\ LastLog = "No drifts detected"

\* a scan completed with hasDrift true but totalDrifts missing, gate flags
\* set: no drift fetch, exit 0
C30_Witness ==
    /\ Exited
    /\ scan.status = "completed"
    /\ scan.driftResults.present
    /\ scan.driftResults.hasDrift
    /\ scan.driftResults.totalDrifts = JSUndefined
    /\ options.failOnDrift
    /\ driftFetches = 0
    /\ exitCodes = <<0>>

-----------------------------------------------------------------------------
(* Properties of the JSON report *)

\* one of the three gate flags reached waitForScan
AnyGateFlag == options.failOnDrift \/ Truthy(options.failOnSeverity) \/ options.failOnNewOnly

\* the gate object of the report agrees with itself and with the exit code
GateObjectConsistent ==
    /\ report.gate.exitCode \in {JSNum(0), JSNum(1)}
    /\ report.gate.result = "passed" <=> report.gate.exitCode = JSNum(0)
    /\ report.gate.result = "failed" <=> report.gate.exitCode = JSNum(1)
    /\ exitCodes = <<report.gate.exitCode.n>>

\* C21 (as stated): the JSON report holds scanId, consoleUrl, summary and
\* drifts, and a gate object if and only if a gate flag was supplied; the
\* gate object's result and exitCode agree and exitCode is the exit code of
\* the process.
C21_Original ==
    report.printed =>
        /\ {"scanId", "consoleUrl", "summary", "drifts"} \subseteq report.keys
        /\ "gate" \in report.keys <=> AnyGateFlag
        /\ "gate" \in report.keys => GateObjectConsistent

\* C21 (amended): the same, with the gate object present if and only if
\* failOnDrift or a non-empty failOnSeverity was supplied: failOnNewOnly
\* alone gives a report without gate object. The report is printed for
\* every completed scan with totalDrifts > 0 under --json, unless the API
\* client ended the process on the drift-list request.
C21_JsonReport ==
    /\ report.printed =>
           /\ Exited /\ options.json /\ scan.status = "completed" /\ TotalDriftsPositive
           /\ report.keys = {"scanId", "consoleUrl", "summary", "drifts"}
                            \cup (IF GateConfigured THEN {"gate"} ELSE {})
           /\ report.scanId = fullId
           /\ report.consoleUrl[2] = fullId
           /\ report.summary = scan.driftResults
           /\ report.drifts = driftDetails
           /\ "gate" \in report.keys =>
                  /\ GateObjectConsistent
                  /\ report.gate.exitCode = gateExitCode
                  /\ report.gate.options.failOnDrift = options.failOnDrift
                  /\ report.gate.options.failOnNewOnly = options.failOnNewOnly
           /\ "gate" \notin report.keys => exitCodes = <<0>>
    /\ (Exited /\ options.json /\ scan.status = "completed" /\ TotalDriftsPositive
          /\ ~ClientAborted) => report.printed

\* a JSON report whose gate object says failed, with exit code 1
C21_Witness ==
    /\ report.printed
    /\ "gate" \in report.keys
    /\ report.gate.result = "failed"
    /\ Len(report.drifts) = 1
    /\ exitCodes = <<1>>

-----------------------------------------------------------------------------
(* Properties of the stored credentials *)

\* C22: a 401 response to a request of the wait command (the scan list, a
\* status fetch, the drift list) ends the process with code 1 and leaves
\* neither token nor refreshToken nor user in the store.
C22_UnauthorizedClearsAuth ==
    [][(pc # "exited" /\ response'.resp.http = 401) =>
           /\ token' = Absent
           /\ refreshToken' = Absent
           /\ user' = Absent
           /\ pc' = "exited"
           /\ exitCodes' = <<1>>
           /\ LastLog' = "client:Session expired"]_vars

\* the second status fetch was answered with 401 and nothing is stored
C22_Witness ==
    /\ Exited
    /\ response = [req |-> "scan", resp |-> [http |-> 401, code |-> ""]]
    /\ statusFetches = 2
    /\ token = Absent
    /\ refreshToken = Absent
    /\ user = Absent
    /\ exitCodes = <<1>>

\* the token given to login could not be verified: getMe failed
VerificationFailed == response.req = "getMe" /\ response.resp # OkResponse

\* C23: a login with --token whose verification fails ends with code 1 and
\* leaves neither token nor refreshToken nor user stored; one that succeeds
\* has stored the token given and the user returned.
C23_FailedLoginStoresNothing ==
    /\ (Exited /\ VerificationFailed) =>
           /\ exitCodes = <<1>>
           /\ token = Absent
           /\ refreshToken = Absent
           /\ user = Absent
    /\ pc = "dashboard" => (token = loginToken /\ user = ReturnedUser)

-----------------------------------------------------------------------------
(* Properties of getApiUrl *)

\* C24: getApiUrl returns CONTROLINFRA_API_URL when it is set and leaves the
\* stored apiUrl as it was; when it is unset and the stored apiUrl is the
\* stale default https://www.controlinfra.com it returns and stores
\* https://api.controlinfra.com; every other stored URL is returned unchanged.
C24_ApiUrlMigration ==
    [][apiUrlResult' # apiUrlResult =>
           IF apiUrlEnv \notin {Absent, ""}
           THEN apiUrlResult' = apiUrlEnv /\ apiUrl' = apiUrl
           ELSE IF apiUrl = "https://www.controlinfra.com"
                THEN /\ apiUrlResult' = "https://api.controlinfra.com"
                     /\ apiUrl' = "https://api.controlinfra.com"
                ELSE apiUrlResult' = apiUrl /\ apiUrl' = apiUrl]_vars

====
